---------------------------- MODULE Spec2Model ----------------------------
(***************************************************************************)
(* A model of lecf: the Let's Encrypt / Cloudflare certificate manager     *)
(* and dynamic-DNS reconciler.                                             *)
(*                                                                         *)
(* Strings are sequences of one-character strings, so that str.split and   *)
(* str.strip are computed as Python computes them.                         *)
(***************************************************************************)
EXTENDS Integers, Sequences, FiniteSets, TLC

VARIABLES
    \* ---- CertificateManager (lecf/managers/certificate.py) ----
    domains_str,      \* the configuration string handed to _parse_domains
    cert_domains,     \* CertificateManager.domains: a list of sets of FQDNs
    cert_pc,          \* "new" before __init__ has run, "ready" after; inside a
                      \* cycle "loop" at the head of the for loop and "checked"
                      \* after check_certificate_expiry
    cert_cycle,       \* number of certificate cycles started so far
    cert_idx,         \* _execute_cycle: index of the group being processed
    \* ---- DdnsManager (lecf/managers/ddns.py, ddns_manager.py) ----
    ddns_domains,     \* DdnsManager.domains, in dict insertion order
    current_ip,       \* DdnsManager.current_ip
    last_check_time,  \* DdnsManager.last_check_time (number of the cycle that set it)
    pc,               \* position of the DDNS cycle
    cycle,            \* number of DDNS cycles started so far
    svc,              \* get_public_ip: index of the next IP-echo service
    ip,               \* _execute_cycle: the local `ip`
    idx,              \* _execute_cycle: index of the triple being processed
    update_count,     \* _execute_cycle: the local `update_count`
    error_count,      \* _execute_cycle: the local `error_count`
    dns_records,      \* update_dns_record: the local `dns_records` snapshot
    zone_id,          \* update_dns_record / update_all_domains: the local `zone_id`
    results,          \* return values of update_dns_record in this cycle
    calls,            \* calls made on the CloudflareClient in this cycle
    raised,           \* the cycle was left by an exception
    branch,           \* the way the cycle took after the probe
    \* ---- the remote authority ----
    records,          \* DNS records held by the provider; a record's id is its index
    hist,             \* facts about the previous DDNS cycle
    \* ---- one call of a method examined on its own ----
    args,             \* the arguments of the call and the fields of self it reads
    env,              \* what the subprocesses and remote calls made by it will do
    returned,         \* how the call ended: its return value or the exception raised
    trace,            \* the subprocesses started and remote calls made, in order
    fpc               \* "call" before the call, "done" after it

certVars == <<domains_str, cert_domains, cert_pc, cert_cycle, cert_idx>>
ddnsVars == <<ddns_domains, current_ip, last_check_time, pc, cycle, svc, ip, idx,
              update_count, error_count, dns_records, zone_id, results, calls,
              raised, branch, records, hist>>
callVars == <<args, env, returned, trace, fpc>>
vars == <<domains_str, cert_domains, cert_pc, cert_cycle, cert_idx,
          ddns_domains, current_ip, last_check_time, pc, cycle, svc, ip, idx,
          update_count, error_count, dns_records, zone_id, results, calls,
          raised, branch, records, hist,
          args, env, returned, trace, fpc>>

\* Python's None: a value no string (a sequence of characters) equals
None == <<"None">>

-----------------------------------------------------------------------------
(* Bounds of the model *)

MaxLen == 4
MaxCycles == 2

-----------------------------------------------------------------------------
(* Python string operations *)

Whitespace == {" ", "\n"}

Range(f) == {f[i] : i \in DOMAIN f}

SetMin(S) == CHOOSE m \in S : \A k \in S : m <= k

SetMax(S) == CHOOSE m \in S : \A k \in S : m >= k

\* str.strip(): remove leading and trailing whitespace
RECURSIVE StripLeft(_)
StripLeft(s) ==
    IF s # <<>> /\ Head(s) \in Whitespace THEN StripLeft(Tail(s)) ELSE s

RECURSIVE StripRight(_)
StripRight(s) ==
    IF s # <<>> /\ s[Len(s)] \in Whitespace
    THEN StripRight(SubSeq(s, 1, Len(s) - 1))
    ELSE s

Strip_Nothing(s) == s

Strip(s) == StripRight(StripLeft(s))

\* str.split(sep): the list of the fields between separators, empty ones kept
RECURSIVE Split(_, _)
Split(s, sep) ==
    LET at == {i \in 1..Len(s) : s[i] = sep}
    IN  IF at = {} THEN <<s>>
        ELSE <<SubSeq(s, 1, SetMin(at) - 1)>>
             \o Split(SubSeq(s, SetMin(at) + 1, Len(s)), sep)

Join_FirstOnly(parts, sep) == IF parts = <<>> THEN <<>> ELSE parts[1]

\* sep.join(parts)
RECURSIVE Join(_, _)
Join(parts, sep) ==
    IF parts = <<>> THEN <<>>
    ELSE IF Len(parts) = 1 THEN parts[1]
    ELSE parts[1] \o <<sep>> \o Join(Tail(parts), sep)

-----------------------------------------------------------------------------
(* Python values whose type matters to the code: a record with a `kind`.     *)
(* "None"; "str" with its text `s`; "list" with its `items`; "dict" with its *)
(* `body`; "object" (neither a dict nor iterable) with its `attrs` if it has *)
(* any.  For what a call on the cloudflare library does there are also      *)
(* "raise" (an exception), "TypeError" (that exception) and "answer": the    *)
(* proper response of the remote authority to the request.                   *)

Gives(kind) == [kind |-> kind]
StrOf(s) == [kind |-> "str", s |-> s]
ListOf(items) == [kind |-> "list", items |-> items]
DictOf(body) == [kind |-> "dict", body |-> body]
ObjectWith(attrs) == [kind |-> "object", attrs |-> attrs]

\* hasattr(v, a)
HasAttr(v, a) == v.kind = "object" /\ "attrs" \in DOMAIN v /\ a \in DOMAIN v.attrs

\* isinstance(v, dict) and k in v
HasKey(v, k) == v.kind = "dict" /\ k \in DOMAIN v.body

\* Python truth value
Truthy(v) ==
    \/ v.kind = "object"
    \/ v.kind = "str" /\ v.s # <<>>
    \/ v.kind = "list" /\ v.items # <<>>
    \/ v.kind = "dict" /\ DOMAIN v.body # {}

\* dict.get(key, default)
Get(d, key, default) == IF key \in DOMAIN d THEN d[key] ELSE default

-----------------------------------------------------------------------------
(* CertificateManager._parse_domains *)

\* the comprehension without its filter: blank entries are kept
DomainSet_KeepBlank(config_str) ==
    {Strip(d) : d \in Range(Split(config_str, ","))}

\* {d.strip() for d in config_str.split(",") if d.strip()}
DomainSet(config_str) ==
    {Strip(d) : d \in Range(Split(config_str, ","))} \ {<<>>}

\* the body of the loop over cert_configs, applied from the first one on
RECURSIVE ParseCertConfigs(_)
ParseCertConfigs(cert_configs) ==
    IF cert_configs = <<>> THEN <<>>
    ELSE LET config_str == Head(cert_configs)
             rest == ParseCertConfigs(Tail(cert_configs))
         IN  IF Strip(config_str) = <<>> THEN rest
             ELSE IF DomainSet(config_str) = {} THEN rest
             ELSE <<DomainSet(config_str)>> \o rest

ParseCertDomains(s) == ParseCertConfigs(Split(s, ";"))


-----------------------------------------------------------------------------
(* Names, addresses and the remote authority *)

At == <<"@">>
W == <<"w">>
ZoneA == <<"a", ".", "c">>
ZoneB == <<"b", ".", "c">>

Zid1 == <<"z", "1">>
Zid2 == <<"z", "2">>

Ip0 == <<"0">>
Ip1 == <<"1">>

\* response bodies of the IP-echo services
Bodies == {<<"1">>, <<"2", "\n">>, <<" ">>}

\* the zones of the account, in the order the provider lists them
RemoteZones ==
    << [id |-> Zid1, name |-> ZoneA], [id |-> Zid2, name |-> ZoneB] >>


-----------------------------------------------------------------------------
(* DdnsManager._parse_domains *)

KeptToken_Any(token) == TRUE

\* `if s.strip()` in the comprehensions
KeptToken(token) == token # <<>>

\* _parse_domains(domains_config): the dict returned, as the sequence of its
\* items in the order of insertion
parse_domains(domains_config) ==
    LET \* [s.strip() for s in text.split(",") if s.strip()]
        Tokens(text) ==
            LET fields == Split(text, ",")
            IN  SelectSeq([i \in 1..Len(fields) |-> Strip(fields[i])], KeptToken)
        \* result[domain] = value
        Store(result, item) ==
            LET at == {i \in 1..Len(result) : result[i].domain = item.domain}
            IN  IF at = {} THEN Append(result, item)
                ELSE [result EXCEPT ![SetMin(at)] = item]
        RECURSIVE parse(_, _)
        parse(entries, result) ==
            IF entries = <<>> THEN result
            ELSE LET domain_entry == Head(entries)
                     domain == Get(domain_entry.body, "domain", Gives("None"))
                     subdomains_str == Get(domain_entry.body, "subdomains", StrOf(<<"@">>))
                     subdomains ==
                         IF subdomains_str.kind = "str" THEN Tokens(subdomains_str.s)
                         ELSE IF subdomains_str.kind = "list" THEN subdomains_str.items
                         ELSE <<>>
                     record_types_str == Get(domain_entry.body, "record_types", Gives("None"))
                     record_types ==
                         IF ~Truthy(record_types_str) THEN None
                         ELSE IF record_types_str.kind = "str"
                              THEN Tokens(record_types_str.s)
                         ELSE IF record_types_str.kind = "list" THEN record_types_str.items
                         ELSE None
                 IN  IF domain_entry.kind # "dict" THEN parse(Tail(entries), result)
                     ELSE IF ~Truthy(domain) THEN parse(Tail(entries), result)
                     ELSE IF subdomains = <<>> THEN parse(Tail(entries), result)
                     ELSE parse(Tail(entries),
                                Store(result, [domain |-> domain.s,
                                               subdomains |-> subdomains,
                                               record_types |-> record_types]))
    IN  parse(domains_config, <<>>)

\* the `ddns.domains` list of config.yaml, with the records the provider
\* holds when the process starts
DdnsConfigs ==
    { [config |->
          << DictOf([domain |-> StrOf(ZoneA), subdomains |-> StrOf(<<"@", ",", " ", "w">>)]),
             DictOf([domain |-> StrOf(ZoneB)]) >>,
       records |-> <<>>],
      [config |->
          << DictOf([domain |-> StrOf(ZoneA), subdomains |-> StrOf(<<"@", ",", " ", "w">>)]),
             DictOf([domain |-> StrOf(W \o <<".">> \o ZoneB)]) >>,
       records |->
          << [id |-> 1, zone |-> Zid1, type |-> <<"A">>, name |-> ZoneA,
              content |-> Ip0, ttl |-> 300, proxied |-> TRUE],
             [id |-> 2, zone |-> Zid1, type |-> <<"A">>,
              name |-> W \o <<".">> \o ZoneA,
              content |-> Ip1, ttl |-> 60, proxied |-> FALSE] >>],
      [config |->
          << StrOf(ZoneB),
             DictOf([domain |-> StrOf(ZoneA), subdomains |-> ListOf(<<At>>),
                     record_types |-> StrOf(<<"A", ",", " ", "A", "A", "A", "A">>)]) >>,
       records |->
          << [id |-> 1, zone |-> Zid1, type |-> <<"A">>, name |-> ZoneA,
              content |-> Ip0, ttl |-> 300, proxied |-> FALSE] >>] }

\* DdnsManager.domains as _parse_domains leaves it (in insertion order),
\* with the records the provider holds when the process starts
Scenarios ==
    { [domains |-> parse_domains(c.config), records |-> c.records] : c \in DdnsConfigs }

NumServices == 4

default_record_types == << <<"A">> >>

\* Python truth value of an Optional[str]
Falsy_OnlyEmpty(v) == v = <<>>

Falsy(v) == v = None \/ v = <<>>

-----------------------------------------------------------------------------
(* CloudflareClient, as seen by its callers *)

\* get_zone_id: the zone named by the last two labels of the domain; api_ok is
\* whether the zone listing could be retrieved
GetZoneId(domain, api_ok) ==
    LET parts == Split(domain, ".")
        n == Len(parts)
        zone_name == IF n >= 2 THEN parts[n - 1] \o <<".">> \o parts[n] ELSE None
        matching_zones == SelectSeq(RemoteZones, LAMBDA z : z.name = zone_name)
    IN  IF n < 2 \/ ~api_ok \/ matching_zones = <<>>
        THEN [zone_id |-> None, zone_name |-> None]
        ELSE [zone_id |-> matching_zones[1].id, zone_name |-> matching_zones[1].name]

\* get_dns_records: the records of the zone matching every key of params, in
\* order; the empty list on any error
GetDnsRecords(recs, zid, params, api_ok) ==
    IF ~api_ok THEN <<>>
    ELSE SelectSeq(recs, LAMBDA r :
            /\ r.zone = zid
            /\ \A k \in DOMAIN params : Get(r, k, None) = params[k])

\* the provider's state after a successful create_dns_record
RemoteCreate(recs, zid, data) ==
    Append(recs, [id |-> Len(recs) + 1, zone |-> zid, type |-> data.type,
                  name |-> data.name, content |-> data.content,
                  ttl |-> data.ttl, proxied |-> data.proxied])

\* the provider's state after a successful update_dns_record (a PUT)
RemoteUpdate(recs, zid, rid, data) ==
    [recs EXCEPT ![rid] =
        [id |-> rid, zone |-> zid, type |-> data.type, name |-> data.name,
         content |-> data.content, ttl |-> data.ttl, proxied |-> data.proxied]]

-----------------------------------------------------------------------------
(* DdnsManager *)

\* the (domain, subdomain, record type) triples in the order of the loops of
\* _execute_cycle
RECURSIVE TypeTriples(_, _, _)
TypeTriples(domain, subdomain, record_types) ==
    IF record_types = <<>> THEN <<>>
    ELSE <<[domain |-> domain, subdomain |-> subdomain,
            record_type |-> Head(record_types)]>>
         \o TypeTriples(domain, subdomain, Tail(record_types))

RECURSIVE SubdomainTriples(_, _, _)
SubdomainTriples(domain, subdomains, record_types) ==
    IF subdomains = <<>> THEN <<>>
    ELSE TypeTriples(domain, Head(subdomains), record_types)
         \o SubdomainTriples(domain, Tail(subdomains), record_types)

RecordTypesOf_AlwaysDefault(config) == default_record_types

\* config.get("record_types") or self.default_record_types
RecordTypesOf(config) ==
    IF config.record_types = None \/ config.record_types = <<>>
    THEN default_record_types
    ELSE config.record_types

RECURSIVE Triples(_)
Triples(domains) ==
    IF domains = <<>> THEN <<>>
    ELSE SubdomainTriples(Head(domains).domain, Head(domains).subdomains,
                          RecordTypesOf(Head(domains)))
         \o Triples(Tail(domains))

RecordName_ZoneOnly(domain, subdomain) == domain

\* record_name = domain if subdomain == "@" else f"{subdomain}.{domain}"
RecordName(domain, subdomain) ==
    IF subdomain = At THEN domain ELSE subdomain \o <<".">> \o domain

UpdateRecord_NotProxied(record_name, record_type, new_ip, existing) ==
    [name |-> record_name, type |-> record_type, content |-> new_ip,
     ttl |-> 60, proxied |-> FALSE]

\* the record sent to update an existing record
UpdateRecord(record_name, record_type, new_ip, existing) ==
    [name |-> record_name, type |-> record_type, content |-> new_ip,
     ttl |-> 60, proxied |-> Get(existing, "proxied", FALSE)]

CreateRecord_Proxied(record_name, record_type, new_ip) ==
    [name |-> record_name, type |-> record_type, content |-> new_ip,
     ttl |-> 60, proxied |-> TRUE]

\* the record sent to create a new record
CreateRecord(record_name, record_type, new_ip) ==
    [name |-> record_name, type |-> record_type, content |-> new_ip,
     ttl |-> 60, proxied |-> FALSE]

PcAfter_StopOnError(i, n, success) ==
    IF success /\ i < n THEN "lookup" ELSE "commit"

\* where the loops of _execute_cycle go after triple i of n
PcAfter(i, n, success) == IF i < n THEN "lookup" ELSE "commit"

IsWrite(c) == c.op \in {"create_dns_record", "update_dns_record"}

WriteCalls == SelectSeq(calls, IsWrite)

NoHistory ==
    [prev_ran |-> FALSE, prev_returned |-> FALSE, prev_ip |-> None,
     prev_writes |-> 0, ip_before |-> None, writes |-> 0]

CertAbsent ==
    /\ domains_str = <<>>
    /\ cert_domains = <<>>
    /\ cert_pc = "absent"
    /\ cert_cycle = 0
    /\ cert_idx = 0

\* No method is being examined on its own: every field at a fixed value.
CallAbsent ==
    /\ args = None
    /\ env = None
    /\ returned = None
    /\ trace = <<>>
    /\ fpc = "absent"

\* DdnsManager.__init__
Init ==
    /\ \E scenario \in Scenarios :
          /\ ddns_domains = scenario.domains
          /\ records = scenario.records
    /\ current_ip = None
    /\ last_check_time = None
    /\ pc = "idle"
    /\ cycle = 0
    /\ svc = 0
    /\ ip = None
    /\ idx = 0
    /\ update_count = 0
    /\ error_count = 0
    /\ dns_records = <<>>
    /\ zone_id = None
    /\ results = <<>>
    /\ calls = <<>>
    /\ raised = FALSE
    /\ branch = "none"
    /\ hist = NoHistory
    /\ CertAbsent
    /\ CallAbsent

\* BaseManager.run enters _execute_cycle, which enters get_public_ip
StartCycle ==
    /\ pc = "idle"
    /\ cycle < MaxCycles
    /\ cycle' = cycle + 1
    /\ pc' = "probe"
    /\ svc' = 1
    /\ hist' = [prev_ran |-> cycle > 0, prev_returned |-> ~raised, prev_ip |-> ip,
                prev_writes |-> hist.writes, ip_before |-> current_ip,
                writes |-> 0]
    /\ ip' = None
    /\ idx' = 0
    /\ update_count' = 0
    /\ error_count' = 0
    /\ dns_records' = <<>>
    /\ zone_id' = None
    /\ results' = <<>>
    /\ calls' = <<>>
    /\ raised' = FALSE
    /\ branch' = "none"
    /\ UNCHANGED <<ddns_domains, current_ip, last_check_time, records>>
    /\ UNCHANGED <<certVars, callVars>>

\* what requests.get may do: raise, or answer with a status and a body
ProbeOutcomes ==
    {[raises |-> TRUE, status_code |-> 0, text |-> <<>>]}
    \cup {[raises |-> FALSE, status_code |-> c, text |-> b] :
             c \in {200, 500}, b \in Bodies}

\* get_public_ip: one turn of the loop over ip_check_services
ProbeService ==
    /\ pc = "probe"
    /\ \E response \in ProbeOutcomes :
          IF ~response.raises /\ response.status_code = 200
          THEN /\ ip' = Strip(response.text)
               /\ pc' = "check"
               /\ svc' = svc
          ELSE IF svc < NumServices
          THEN /\ svc' = svc + 1
               /\ UNCHANGED <<ip, pc>>
          ELSE /\ ip' = None
               /\ pc' = "check"
               /\ svc' = svc
    /\ UNCHANGED <<ddns_domains, current_ip, last_check_time, cycle, idx,
                   update_count, error_count, dns_records, zone_id, results,
                   calls, raised, branch, records, hist>>
    /\ UNCHANGED <<certVars, callVars>>

CheckIp_NoShortCircuit ==
    /\ pc = "check"
    /\ IF Falsy(ip)
       THEN /\ pc' = "idle"
            /\ branch' = "abort"
            /\ UNCHANGED <<last_check_time, idx>>
       ELSE /\ pc' = IF Triples(ddns_domains) = <<>> THEN "commit" ELSE "lookup"
            /\ branch' = "pass"
            /\ idx' = 1
            /\ UNCHANGED last_check_time
    /\ svc' = 0
    /\ UNCHANGED <<ddns_domains, current_ip, cycle, ip, update_count,
                   error_count, dns_records, zone_id, results, calls, raised,
                   records, hist>>
    /\ UNCHANGED <<certVars, callVars>>

\* _execute_cycle, from the probe's result to the start of the pass
CheckIp ==
    /\ pc = "check"
    /\ IF Falsy(ip)
       THEN /\ pc' = "idle"
            /\ branch' = "abort"
            /\ UNCHANGED <<last_check_time, idx>>
       ELSE IF ip = current_ip
       THEN /\ pc' = "idle"
            /\ branch' = "skip"
            /\ last_check_time' = cycle
            /\ UNCHANGED idx
       ELSE /\ pc' = IF Triples(ddns_domains) = <<>> THEN "commit" ELSE "lookup"
            /\ branch' = "pass"
            /\ idx' = 1
            /\ UNCHANGED last_check_time
    /\ svc' = 0
    /\ UNCHANGED <<ddns_domains, current_ip, cycle, ip, update_count,
                   error_count, dns_records, zone_id, results, calls, raised,
                   records, hist>>
    /\ UNCHANGED <<certVars, callVars>>

Call(op, i, zid, rid, data, ret) ==
    [op |-> op, idx |-> i, zone_id |-> zid, record_id |-> rid, data |-> data,
     ret |-> ret]

\* update_dns_record, from its entry to the decision about the record found
Lookup ==
    /\ pc = "lookup"
    /\ \E zone_api_ok \in BOOLEAN, records_api_ok \in BOOLEAN :
        LET t == Triples(ddns_domains)[idx]
            n == Len(Triples(ddns_domains))
            zone == GetZoneId(t.domain, zone_api_ok)
            record_name == RecordName(t.domain, t.subdomain)
            params == [name |-> record_name, type |-> t.record_type]
            found == GetDnsRecords(records, zone.zone_id, params, records_api_ok)
            zone_call == Call("get_zone_id", idx, None, None, t.domain, zone.zone_id)
            records_call == Call("get_dns_records", idx, zone.zone_id, None,
                                 params, found)
        IN  IF zone.zone_id = None
            THEN /\ calls' = Append(calls, zone_call)
                 /\ results' = Append(results, FALSE)
                 /\ error_count' = error_count + 1
                 /\ idx' = idx + 1
                 /\ pc' = PcAfter(idx, n, FALSE)
                 /\ UNCHANGED <<update_count, dns_records, zone_id>>
            ELSE IF found # <<>> /\ found[1].content = ip
            THEN /\ calls' = calls \o <<zone_call, records_call>>
                 /\ results' = Append(results, TRUE)
                 /\ update_count' = update_count + 1
                 /\ idx' = idx + 1
                 /\ pc' = PcAfter(idx, n, TRUE)
                 /\ UNCHANGED <<error_count, dns_records, zone_id>>
            ELSE /\ calls' = calls \o <<zone_call, records_call>>
                 /\ dns_records' = found
                 /\ zone_id' = zone.zone_id
                 /\ pc' = "write"
                 /\ UNCHANGED <<results, update_count, error_count, idx>>
    /\ UNCHANGED <<ddns_domains, current_ip, last_check_time, cycle, svc, ip,
                   raised, branch, records, hist>>
    /\ UNCHANGED <<certVars, callVars>>

\* update_dns_record, the update of the record found or the creation of one
Write ==
    /\ pc = "write"
    /\ \E api_ok \in BOOLEAN :
        LET t == Triples(ddns_domains)[idx]
            n == Len(Triples(ddns_domains))
            record_name == RecordName(t.domain, t.subdomain)
        IN  /\ IF dns_records # <<>>
               THEN LET record_id == dns_records[1].id
                        record == UpdateRecord(record_name, t.record_type, ip,
                                               dns_records[1])
                    IN  /\ calls' = Append(calls,
                              Call("update_dns_record", idx, zone_id, record_id,
                                   record, api_ok))
                        /\ records' = IF api_ok
                                      THEN RemoteUpdate(records, zone_id,
                                                        record_id, record)
                                      ELSE records
               ELSE LET record == CreateRecord(record_name, t.record_type, ip)
                    IN  /\ calls' = Append(calls,
                              Call("create_dns_record", idx, zone_id, None,
                                   record, api_ok))
                        /\ records' = IF api_ok
                                      THEN RemoteCreate(records, zone_id, record)
                                      ELSE records
            /\ results' = Append(results, api_ok)
            /\ update_count' = IF api_ok THEN update_count + 1 ELSE update_count
            /\ error_count' = IF api_ok THEN error_count ELSE error_count + 1
            /\ idx' = idx + 1
            /\ pc' = PcAfter(idx, n, api_ok)
    /\ dns_records' = <<>>
    /\ zone_id' = None
    /\ UNCHANGED <<ddns_domains, current_ip, last_check_time, cycle, svc, ip,
                   raised, branch, hist>>
    /\ UNCHANGED <<certVars, callVars>>

Commit_KeepOldIp ==
    /\ pc = "commit"
    /\ last_check_time' = cycle
    /\ pc' = "idle"
    /\ hist' = [hist EXCEPT !.writes = Len(WriteCalls)]
    /\ idx' = 0
    /\ update_count' = 0
    /\ error_count' = 0
    /\ results' = <<>>
    /\ calls' = <<>>
    /\ UNCHANGED <<ddns_domains, current_ip, cycle, svc, ip, dns_records,
                   zone_id, raised, branch, records>>
    /\ UNCHANGED <<certVars, callVars>>

\* _execute_cycle after the loops: the summary is logged, the state is tracked
\* and the cycle returns, which ends the life of its locals
Commit ==
    /\ pc = "commit"
    /\ current_ip' = ip
    /\ last_check_time' = cycle
    /\ pc' = "idle"
    /\ hist' = [hist EXCEPT !.writes = Len(WriteCalls)]
    /\ idx' = 0
    /\ update_count' = 0
    /\ error_count' = 0
    /\ results' = <<>>
    /\ calls' = <<>>
    /\ UNCHANGED <<ddns_domains, cycle, svc, ip, dns_records, zone_id, raised,
                   branch, records>>
    /\ UNCHANGED <<certVars, callVars>>

Fault_DropsDomains ==
    /\ pc \in {"lookup", "write"}
    /\ raised' = TRUE
    /\ pc' = "idle"
    /\ hist' = [hist EXCEPT !.writes = Len(WriteCalls)]
    /\ ddns_domains' = <<>>
    /\ dns_records' = <<>>
    /\ zone_id' = None
    /\ idx' = 0
    /\ update_count' = 0
    /\ error_count' = 0
    /\ results' = <<>>
    /\ calls' = <<>>
    /\ UNCHANGED <<current_ip, last_check_time, cycle, svc, ip, branch, records>>
    /\ UNCHANGED <<certVars, callVars>>

\* an exception leaves the pass and is caught and logged by BaseManager.run
Fault ==
    /\ pc \in {"lookup", "write"}
    /\ raised' = TRUE
    /\ pc' = "idle"
    /\ hist' = [hist EXCEPT !.writes = Len(WriteCalls)]
    /\ dns_records' = <<>>
    /\ zone_id' = None
    /\ idx' = 0
    /\ update_count' = 0
    /\ error_count' = 0
    /\ results' = <<>>
    /\ calls' = <<>>
    /\ UNCHANGED <<ddns_domains, current_ip, last_check_time, cycle, svc, ip,
                   branch, records>>
    /\ UNCHANGED <<certVars, callVars>>

Next ==
    \/ StartCycle
    \/ ProbeService
    \/ CheckIp
    \/ Lookup
    \/ Write
    \/ Commit
    \/ Fault

Spec == Init /\ [][Next]_vars

-----------------------------------------------------------------------------
(* The earlier DdnsManager of ddns_manager.py, run by main.py *)

\* self.record_types = get_env_list('DDNS_RECORD_TYPES', default=['A'])
legacy_record_types == << <<"A">> >>

\* DdnsManager.domains as the earlier _parse_domains leaves it: zone name and
\* subdomains, in insertion order
LegacyScenarios ==
    { [domains |->
          << [domain |-> ZoneA, subdomains |-> <<At, W>>],
             [domain |-> ZoneB, subdomains |-> <<At>>] >>,
       records |-> <<>>],
      [domains |->
          << [domain |-> ZoneA, subdomains |-> <<At, W>>],
             [domain |-> ZoneB, subdomains |-> <<At>>] >>,
       records |->
          << [id |-> 1, zone |-> Zid1, type |-> <<"A">>, name |-> ZoneA,
              content |-> Ip0, ttl |-> 300, proxied |-> TRUE],
             [id |-> 2, zone |-> Zid1, type |-> <<"A">>,
              name |-> W \o <<".">> \o ZoneA,
              content |-> Ip1, ttl |-> 60, proxied |-> FALSE] >>] }

\* the (zone, subdomain, record type) triples in the order of the loops of
\* update_all_domains
RECURSIVE LegacyTriples(_)
LegacyTriples(domains) ==
    IF domains = <<>> THEN <<>>
    ELSE SubdomainTriples(Head(domains).domain, Head(domains).subdomains,
                          legacy_record_types)
         \o LegacyTriples(Tail(domains))

\* the index of the first triple after i that belongs to another zone
NextZoneIndex(triples, i) ==
    LET later == {j \in (i + 1)..Len(triples) : triples[j].domain # triples[i].domain}
    IN  IF later = {} THEN Len(triples) + 1 ELSE SetMin(later)

\* where the loops of update_all_domains go from triple j on, coming from i
LegacyPcAt(triples, i, j) ==
    IF j > Len(triples) THEN "finish"
    ELSE IF triples[j].domain # triples[i].domain THEN "zone"
    ELSE "record"

\* DdnsManager.__init__ of ddns_manager.py
LegacyInit ==
    /\ \E scenario \in LegacyScenarios :
          /\ ddns_domains = scenario.domains
          /\ records = scenario.records
    /\ current_ip = None
    /\ last_check_time = None
    /\ pc = "idle"
    /\ cycle = 0
    /\ svc = 0
    /\ ip = None
    /\ idx = 0
    /\ update_count = 0
    /\ error_count = 0
    /\ dns_records = <<>>
    /\ zone_id = None
    /\ results = <<>>
    /\ calls = <<>>
    /\ raised = FALSE
    /\ branch = "none"
    /\ hist = NoHistory
    /\ CertAbsent
    /\ CallAbsent

\* update_all_domains, from the probe's result to the start of the loop
LegacyCheckIp ==
    /\ pc = "check"
    /\ IF Falsy(ip)
       THEN /\ pc' = "idle"
            /\ branch' = "abort"
            /\ UNCHANGED <<current_ip, last_check_time, idx>>
       ELSE IF ip = current_ip
       THEN /\ pc' = "idle"
            /\ branch' = "skip"
            /\ last_check_time' = cycle
            /\ UNCHANGED <<current_ip, idx>>
       ELSE /\ current_ip' = ip
            /\ last_check_time' = cycle
            /\ pc' = IF LegacyTriples(ddns_domains) = <<>> THEN "finish" ELSE "zone"
            /\ branch' = "pass"
            /\ idx' = 1
    /\ svc' = 0
    /\ UNCHANGED <<ddns_domains, cycle, ip, update_count, error_count,
                   dns_records, zone_id, results, calls, raised, records, hist>>
    /\ UNCHANGED <<certVars, callVars>>

\* update_all_domains: the zone lookup that opens the processing of a zone
LegacyZone ==
    /\ pc = "zone"
    /\ \E zone_api_ok \in BOOLEAN :
        LET triples == LegacyTriples(ddns_domains)
            t == triples[idx]
            zone == GetZoneId(t.domain, zone_api_ok)
            next == NextZoneIndex(triples, idx)
        IN  /\ calls' = Append(calls,
                  Call("get_zone_id", idx, None, None, t.domain, zone.zone_id))
            /\ IF zone.zone_id = None
               THEN /\ error_count' = error_count + 1
                    /\ idx' = next
                    /\ pc' = IF next > Len(triples) THEN "finish" ELSE "zone"
                    /\ UNCHANGED zone_id
               ELSE /\ zone_id' = zone.zone_id
                    /\ pc' = "record"
                    /\ UNCHANGED <<error_count, idx>>
    /\ UNCHANGED <<ddns_domains, current_ip, last_check_time, cycle, svc, ip,
                   update_count, dns_records, results, raised, branch, records,
                   hist>>
    /\ UNCHANGED <<certVars, callVars>>

\* update_dns_record of ddns_manager.py and the counting of its result
LegacyUpdateDnsRecord ==
    /\ pc = "record"
    /\ \E records_api_ok \in BOOLEAN, api_ok \in BOOLEAN :
        LET triples == LegacyTriples(ddns_domains)
            t == triples[idx]
            record_name == RecordName(t.domain, t.subdomain)
            params == [name |-> record_name, type |-> t.record_type]
            found == GetDnsRecords(records, zone_id, params, records_api_ok)
            records_call == Call("get_dns_records", idx, zone_id, None, params, found)
            unchanged == found # <<>> /\ found[1].content = ip
            success == unchanged \/ api_ok
        IN  /\ IF unchanged
               THEN /\ calls' = Append(calls, records_call)
                    /\ UNCHANGED records
               ELSE IF found # <<>>
               THEN LET record == UpdateRecord(record_name, t.record_type, ip, found[1])
                    IN  /\ calls' = calls \o <<records_call,
                              Call("update_dns_record", idx, zone_id, found[1].id,
                                   record, api_ok)>>
                        /\ records' = IF api_ok
                                      THEN RemoteUpdate(records, zone_id,
                                                        found[1].id, record)
                                      ELSE records
               ELSE LET record == CreateRecord(record_name, t.record_type, ip)
                    IN  /\ calls' = calls \o <<records_call,
                              Call("create_dns_record", idx, zone_id, None,
                                   record, api_ok)>>
                        /\ records' = IF api_ok
                                      THEN RemoteCreate(records, zone_id, record)
                                      ELSE records
            /\ results' = Append(results, success)
            /\ update_count' = IF success THEN update_count + 1 ELSE update_count
            /\ error_count' = IF success THEN error_count ELSE error_count + 1
            /\ idx' = idx + 1
            /\ pc' = LegacyPcAt(triples, idx, idx + 1)
    /\ zone_id' = IF pc' = "record" THEN zone_id ELSE None
    /\ UNCHANGED <<ddns_domains, current_ip, last_check_time, cycle, svc, ip,
                   dns_records, raised, branch, hist>>
    /\ UNCHANGED <<certVars, callVars>>

\* update_all_domains: an exception while a zone is processed is counted as
\* one error and the loop goes on with the next zone
LegacyZoneFault ==
    /\ pc = "record"
    /\ LET triples == LegacyTriples(ddns_domains)
           next == NextZoneIndex(triples, idx)
       IN  /\ idx' = next
           /\ pc' = IF next > Len(triples) THEN "finish" ELSE "zone"
    /\ error_count' = error_count + 1
    /\ zone_id' = None
    /\ UNCHANGED <<ddns_domains, current_ip, last_check_time, cycle, svc, ip,
                   update_count, dns_records, results, calls, raised, branch,
                   records, hist>>
    /\ UNCHANGED <<certVars, callVars>>

\* update_all_domains after the loop: the summary is logged and the cycle
\* returns
LegacyFinish ==
    /\ pc = "finish"
    /\ pc' = "idle"
    /\ hist' = [hist EXCEPT !.writes = Len(WriteCalls)]
    /\ idx' = 0
    /\ update_count' = 0
    /\ error_count' = 0
    /\ results' = <<>>
    /\ calls' = <<>>
    /\ UNCHANGED <<ddns_domains, current_ip, last_check_time, cycle, svc, ip,
                   dns_records, zone_id, raised, branch, records>>
    /\ UNCHANGED <<certVars, callVars>>

LegacyNext ==
    \/ StartCycle
    \/ ProbeService
    \/ LegacyCheckIp
    \/ LegacyZone
    \/ LegacyUpdateDnsRecord
    \/ LegacyZoneFault
    \/ LegacyFinish

LegacySpec == LegacyInit /\ [][LegacyNext]_vars

-----------------------------------------------------------------------------
(* Properties of the DDNS reconciliation *)

CallsOf(op, i) == SelectSeq(calls, LAMBDA c : c.op = op /\ c.idx = i)

WritesOf(i) == SelectSeq(calls, LAMBDA c : IsWrite(c) /\ c.idx = i)

\* the triples whose zone resolution failed in this cycle
ZoneFailed ==
    {i \in 1..Len(calls) : calls[i].op = "get_zone_id" /\ calls[i].ret = None}

\* what became of triple i, read from the calls made for it
Outcome(i) ==
    LET lookups == CallsOf("get_dns_records", i)
        writes == WritesOf(i)
    IN  IF lookups = <<>> THEN "error"
        ELSE IF lookups[1].ret # <<>> /\ lookups[1].ret[1].content = ip
        THEN "unchanged"
        ELSE IF writes = <<>> \/ ~writes[1].ret THEN "error"
        ELSE IF writes[1].op = "update_dns_record" THEN "updated"
        ELSE "created"

\* C1: when a DDNS cycle follows a cycle that returned, with the probe giving
\* the same address as in that cycle and nobody else writing to the provider,
\* it issues no create_dns_record and no update_dns_record call.
C1_Idempotence ==
    (hist.prev_ran /\ hist.prev_returned /\ pc # "probe" /\ ip = hist.prev_ip)
        => (WriteCalls = <<>> /\ hist.writes = 0)

\* the second of two cycles with the same address has ended without a write,
\* the first one having written
C1_Witness ==
    /\ pc = "idle"
    /\ hist.prev_ran /\ hist.prev_returned
    /\ ~Falsy(ip) /\ ip = hist.prev_ip
    /\ hist.prev_writes > 0
    /\ hist.writes = 0

\* C2: in a cycle that observes a changed IP, current_ip is assigned the new
\* IP only after every triple has been processed; when an exception interrupts
\* the pass current_ip still holds the old value, and the next cycle, probing
\* the same address, does not take the IP-unchanged short-circuit.
C2_CommitAfterPass ==
    /\ pc \in {"lookup", "write", "zone", "record"} => current_ip = hist.ip_before
    /\ (pc = "idle" /\ raised) => current_ip = hist.ip_before
    /\ (hist.prev_ran /\ ~hist.prev_returned /\ pc \notin {"probe", "check"}
           /\ ~Falsy(ip) /\ ip = hist.prev_ip)
          => branch = "pass"

\* C3: when every IP-echo service fails, the cycle makes no call on the DNS
\* provider client and current_ip keeps the value it had before the cycle.
C3_FailClosedProbe ==
    (cycle >= 1 /\ pc # "probe" /\ ip = None)
        => /\ pc \in {"check", "idle"}
           /\ calls = <<>>
           /\ hist.writes = 0
           /\ current_ip = hist.ip_before

\* every service has failed in a cycle that followed a successful one, and the
\* address known from before is still there
C3_Witness ==
    /\ pc = "idle"
    /\ branch = "abort"
    /\ ip = None
    /\ current_ip # None
    /\ \E i \in DOMAIN records : records[i].content # current_ip

\* C4: when the probed IP equals current_ip the cycle makes no call on the DNS
\* provider client, returns right after the probe, and leaves current_ip
\* unchanged.
C4_SteadyStateShortCircuit ==
    (cycle >= 1 /\ pc \notin {"probe", "check"} /\ ~Falsy(ip) /\ ip = hist.ip_before)
        => /\ pc = "idle"
           /\ branch = "skip"
           /\ calls = <<>>
           /\ hist.writes = 0
           /\ current_ip = hist.ip_before

\* the short-circuit was taken although a record differs from the address
C4_Witness ==
    /\ pc = "idle"
    /\ branch = "skip"
    /\ ip = current_ip
    /\ \E i \in DOMAIN records : records[i].content # ip

\* C5: an update request follows a lookup that found a record with another
\* content; it names that record, carries the probed IP as content and the
\* record's own proxied flag.
C5_ProxyPreservation ==
    \A k \in DOMAIN calls :
        calls[k].op = "update_dns_record" =>
            LET lookups == CallsOf("get_dns_records", calls[k].idx)
            IN  /\ Len(lookups) = 1
                /\ lookups[1].ret # <<>>
                /\ lookups[1].ret[1].content # ip
                /\ calls[k].record_id = lookups[1].ret[1].id
                /\ calls[k].data.content = ip
                /\ calls[k].data.proxied = lookups[1].ret[1].proxied

\* an update was sent for a proxied record
C5_Witness ==
    \E k \in DOMAIN calls :
        /\ calls[k].op = "update_dns_record"
        /\ calls[k].data.proxied
        /\ calls[k].ret

\* C6: a triple whose record already holds the probed IP gets no write, and
\* the status reported for it is distinct from the status reported for an
\* updated or a created triple.
C6_UnchangedStatus ==
    \A i \in DOMAIN results :
        Outcome(i) = "unchanged" =>
            /\ WritesOf(i) = <<>>
            /\ \A j \in DOMAIN results :
                  Outcome(j) \in {"updated", "created"} => results[i] # results[j]

\* The part of C6 about writes: no write for an unchanged triple.
C6_NoWriteWhenUnchanged ==
    \A i \in DOMAIN results : Outcome(i) = "unchanged" => WritesOf(i) = <<>>

\* C7: a triple whose zone resolves and whose lookup returns no record gets
\* exactly one write, a create carrying the canonical name, the record type,
\* the probed IP, ttl 60 and proxied false.
C7_CreateOnAbsence ==
    \A i \in DOMAIN results :
        LET lookups == CallsOf("get_dns_records", i)
            t == Triples(ddns_domains)[i]
        IN  (lookups # <<>> /\ lookups[1].ret = <<>>) =>
                /\ Len(WritesOf(i)) = 1
                /\ WritesOf(i)[1].op = "create_dns_record"
                /\ WritesOf(i)[1].zone_id = lookups[1].zone_id
                /\ WritesOf(i)[1].data =
                      [name |-> IF t.subdomain = <<"@">> THEN t.domain
                                ELSE Join(<<t.subdomain, t.domain>>, "."),
                       type |-> t.record_type, content |-> ip, ttl |-> 60,
                       proxied |-> FALSE]

\* a record was created for the subdomain w of the first zone
C7_Witness ==
    \E k \in DOMAIN calls :
        /\ calls[k].op = "create_dns_record"
        /\ calls[k].data.name = <<"w", ".", "a", ".", "c">>
        /\ calls[k].ret

\* the zone resolution failed for the second triple only and no write failed
SecondZoneOnlyFailed ==
    /\ pc = "commit"
    /\ Len(Triples(ddns_domains)) = 3
    /\ {calls[k].idx : k \in ZoneFailed} = {2}
    /\ \A k \in DOMAIN calls : IsWrite(calls[k]) => calls[k].ret

\* C8: in a cycle over three triples where the zone resolution fails for the
\* second only, the first and the third get their lookup and, where the record
\* is missing or differs, their write, and the error count is exactly 1.
C8_PartialFailureIsolation ==
    SecondZoneOnlyFailed =>
        /\ error_count = 1
        /\ update_count = 2
        /\ \A i \in {1, 3} :
              /\ Len(CallsOf("get_dns_records", i)) = 1
              /\ Outcome(i) # "unchanged" => Len(WritesOf(i)) = 1

\* such a cycle in which the first and the third triple were written
C8_Witness ==
    /\ SecondZoneOnlyFailed
    /\ WritesOf(1) # <<>>
    /\ WritesOf(3) # <<>>

-----------------------------------------------------------------------------
(* Configuration strings of the certificate manager *)

Alphabet == {"a", "b", " ", ",", ";"}

Strings == UNION {[1..n -> Alphabet] : n \in 0..MaxLen}

\* The DDNS manager before its construction: every field at a fixed value.
DdnsAbsent ==
    /\ ddns_domains = <<>>
    /\ current_ip = None
    /\ last_check_time = None
    /\ pc = "absent"
    /\ cycle = 0
    /\ svc = 0
    /\ ip = None
    /\ idx = 0
    /\ update_count = 0
    /\ error_count = 0
    /\ dns_records = <<>>
    /\ zone_id = None
    /\ results = <<>>
    /\ calls = <<>>
    /\ raised = FALSE
    /\ branch = "none"
    /\ records = <<>>
    /\ hist = None

CertInit ==
    /\ domains_str \in Strings
    /\ cert_domains = <<>>
    /\ cert_pc = "new"
    /\ cert_cycle = 0
    /\ cert_idx = 0
    /\ DdnsAbsent
    /\ CallAbsent

\* CertificateManager.__init__: self.domains = self._parse_domains(domains_config)
CertManagerInit ==
    /\ cert_pc = "new"
    /\ cert_domains' = ParseCertDomains(domains_str)
    /\ cert_pc' = "ready"
    /\ UNCHANGED <<domains_str, cert_cycle, cert_idx>>
    /\ UNCHANGED <<ddnsVars, callVars>>

CertNext == CertManagerInit

CertSpec == CertInit /\ [][CertNext]_vars

-----------------------------------------------------------------------------
(* The certificate-group grammar stated by position in the input, without   *)
(* the parser's own splitting and trimming.                                 *)

\* <<i, j>> such that s[i..j] is a maximal run free of the separators seps
\* (j = i - 1 for an empty field)
FieldSpans(s, seps) ==
    {sp \in (1..(Len(s) + 1)) \X (0..Len(s)) :
        /\ sp[2] >= sp[1] - 1
        /\ (sp[1] = 1 \/ s[sp[1] - 1] \in seps)
        /\ (sp[2] = Len(s) \/ s[sp[2] + 1] \in seps)
        /\ \A k \in sp[1]..sp[2] : s[k] \notin seps}

\* s without the whitespace before its first and after its last other character
Trimmed(s) ==
    LET nb == {k \in 1..Len(s) : s[k] \notin Whitespace}
    IN  IF nb = {} THEN <<>> ELSE SubSeq(s, SetMin(nb), SetMax(nb))

\* the non-blank trimmed FQDNs written in s[i..j]
FqdnsIn(s, i, j) ==
    {Trimmed(SubSeq(s, sp[1], sp[2])) :
        sp \in {q \in FieldSpans(s, {",", ";"}) : q[1] >= i /\ q[2] <= j}} \ {<<>>}

\* the `;`-separated segments that hold at least one non-blank entry
KeptSegments(s) ==
    {sp \in FieldSpans(s, {";"}) : FqdnsIn(s, sp[1], sp[2]) # {}}

\* the k-th of them, in the order written
KeptSegment(s, k) ==
    CHOOSE sp \in KeptSegments(s) :
        Cardinality({q \in KeptSegments(s) : q[1] < sp[1]}) = k - 1

ExpectedGroups(s) ==
    [k \in 1..Cardinality(KeptSegments(s)) |->
        FqdnsIn(s, KeptSegment(s, k)[1], KeptSegment(s, k)[2])]

\* C9: for every input string, the union of the groups returned by
\* CertificateManager._parse_domains is the set of the non-blank trimmed FQDNs
\* of the input, and no FQDN is a member of two different returned groups.
C9_PartitionInvariant ==
    cert_pc = "ready" =>
        /\ UNION Range(cert_domains) = FqdnsIn(domains_str, 1, Len(domains_str))
        /\ \A i, j \in DOMAIN cert_domains :
              i # j => cert_domains[i] \cap cert_domains[j] = {}

\* The first half of C9 alone: the groups cover exactly the FQDNs written.
C9_UnionOnly ==
    cert_pc = "ready" =>
        UNION Range(cert_domains) = FqdnsIn(domains_str, 1, Len(domains_str))

\* "domain1.com,,;domain2.com;;" with a for domain1.com and b for domain2.com
ExampleEmptyParts == <<"a", ",", ",", ";", "b", ";", ";">>

\* C10: _parse_domains returns one group per `;`-separated segment holding at
\* least one non-blank entry, in order, each the set of the segment's trimmed
\* non-blank `,`-separated entries; no returned group is empty; the example
\* with empty parts yields exactly {domain1.com} and {domain2.com}, and the
\* empty string yields no group.
C10_GroupGrammar ==
    /\ cert_pc = "ready" =>
          /\ cert_domains = ExpectedGroups(domains_str)
          /\ \A i \in DOMAIN cert_domains : cert_domains[i] # {}
    /\ ParseCertDomains(ExampleEmptyParts) = << {<<"a">>}, {<<"b">>} >>
    /\ ParseCertDomains(<<>>) = <<>>

\* a parsed input with a blank entry, a blank segment and two groups
C10_Witness ==
    /\ cert_pc = "ready"
    /\ domains_str = <<"a", ",", ";", "b">>
    /\ cert_domains = << {<<"a">>}, {<<"b">>} >>

-----------------------------------------------------------------------------
(* More Python string and date operations *)

\* str.find(sub) + 1: the position of the first occurrence of sub in s, or 0;
\* `sub in s` is Find(s, sub) # 0
Find(s, sub) ==
    LET at == {i \in 1..(Len(s) - Len(sub) + 1) : SubSeq(s, i, i + Len(sub) - 1) = sub}
    IN  IF at = {} THEN 0 ELSE SetMin(at)

\* str.split(sep) for a separator of any length
RECURSIVE SplitStr(_, _)
SplitStr(s, sep) ==
    LET i == Find(s, sep)
    IN  IF i = 0 THEN <<s>>
        ELSE <<SubSeq(s, 1, i - 1)>> \o SplitStr(SubSeq(s, i + Len(sep), Len(s)), sep)

\* str.split() without a separator: the runs of non-whitespace characters
RECURSIVE SplitWhitespace(_)
SplitWhitespace(s) ==
    LET t == StripLeft(s)
        ws == {i \in 1..Len(t) : t[i] \in Whitespace}
        e == IF ws = {} THEN Len(t) + 1 ELSE SetMin(ws)
    IN  IF t = <<>> THEN <<>>
        ELSE <<SubSeq(t, 1, e - 1)>> \o SplitWhitespace(SubSeq(t, e, Len(t)))

\* the decimal digits and their values
DigitValue ==
    [c \in {"0", "1", "2", "3", "4", "5", "6", "7", "8", "9"} |->
        CASE c = "0" -> 0 [] c = "1" -> 1 [] c = "2" -> 2 [] c = "3" -> 3
          [] c = "4" -> 4 [] c = "5" -> 5 [] c = "6" -> 6 [] c = "7" -> 7
          [] c = "8" -> 8 [] c = "9" -> 9]

\* the number written by a string of digits
RECURSIVE Decimal(_)
Decimal(s) ==
    IF s = <<>> THEN 0
    ELSE 10 * Decimal(SubSeq(s, 1, Len(s) - 1)) + DigitValue[s[Len(s)]]

\* int(s): surrounding whitespace and a sign are accepted, and single
\* underscores between digits; anything else is a ValueError
int(s) ==
    LET t == Strip(s)
        signed == t # <<>> /\ t[1] \in {"+", "-"}
        body == IF signed THEN Tail(t) ELSE t
        literal ==
            /\ body # <<>>
            /\ \A i \in 1..Len(body) : body[i] \in DOMAIN DigitValue \cup {"_"}
            /\ body[1] # "_"
            /\ body[Len(body)] # "_"
            /\ \A i \in 1..(Len(body) - 1) : ~(body[i] = "_" /\ body[i + 1] = "_")
        magnitude == Decimal(SelectSeq(body, LAMBDA c : c # "_"))
    IN  IF ~literal THEN [ok |-> FALSE, value |-> 0]
        ELSE [ok |-> TRUE,
              value |-> IF signed /\ t[1] = "-" THEN 0 - magnitude ELSE magnitude]

DaysInMonth(y, m) ==
    LET leap == (y % 4 = 0) /\ ((y % 100 # 0) \/ (y % 400 = 0))
    IN  IF m = 2 THEN (IF leap THEN 29 ELSE 28)
        ELSE IF m \in {4, 6, 9, 11} THEN 30 ELSE 31

\* date.toordinal(): the number of the day, 0001-01-01 being day 1
toordinal(y, m, d) ==
    LET RECURSIVE before(_)
        before(k) == IF k = 1 THEN 0 ELSE before(k - 1) + DaysInMonth(y, k - 1)
    IN  (y - 1) * 365 + ((y - 1) \div 4) - ((y - 1) \div 100) + ((y - 1) \div 400)
        + before(m) + d

\* datetime.strptime(s, "%Y-%m-%d"): the whole string must match
\* (\d\d\d\d)-(1[0-2]|0[1-9]|[1-9])-(3[01]|[12]\d|0[1-9]|[1-9]| [1-9])
\* and name a day of the calendar; anything else is a ValueError
strptime(s) ==
    LET Digit == DOMAIN DigitValue
        parts == Split(s, "-")
        Y == parts[1]
        m == parts[2]
        d == parts[3]
        year_ok == Len(Y) = 4 /\ \A i \in 1..4 : Y[i] \in Digit
        month_ok ==
            \/ Len(m) = 2 /\ m[1] = "1" /\ m[2] \in {"0", "1", "2"}
            \/ Len(m) = 2 /\ m[1] = "0" /\ m[2] \in Digit \ {"0"}
            \/ Len(m) = 1 /\ m[1] \in Digit \ {"0"}
        day_ok ==
            \/ Len(d) = 2 /\ d[1] = "3" /\ d[2] \in {"0", "1"}
            \/ Len(d) = 2 /\ d[1] \in {"1", "2"} /\ d[2] \in Digit
            \/ Len(d) = 2 /\ d[1] \in {"0", " "} /\ d[2] \in Digit \ {"0"}
            \/ Len(d) = 1 /\ d[1] \in Digit \ {"0"}
        year == Decimal(Y)
        month == Decimal(m)
        day == Decimal(SelectSeq(d, LAMBDA c : c # " "))
    IN  IF Len(parts) = 3 /\ year_ok /\ month_ok /\ day_ok
           /\ year >= 1 /\ day <= DaysInMonth(year, month)
        THEN [ok |-> TRUE, year |-> year, month |-> month, day |-> day]
        ELSE [ok |-> FALSE, year |-> 0, month |-> 0, day |-> 0]

-----------------------------------------------------------------------------
(* One call of one method: `args` and `env` hold the arguments and what the  *)
(* outside world will answer, `returned` what came back, `trace` the calls   *)
(* made on the outside world.                                                *)

CallInit(callset) ==
    /\ \E c \in callset :
         /\ args = c.args
         /\ env = c.env
    /\ returned = None
    /\ trace = <<>>
    /\ fpc = "call"
    /\ CertAbsent
    /\ DdnsAbsent

\* the method runs to its end: it returns a value or raises
CallReturns(method, outcome) ==
    /\ fpc = "call"
    /\ args.method = method
    /\ returned' = [raised |-> outcome.raised, value |-> outcome.value]
    /\ trace' = outcome.calls
    /\ fpc' = "done"
    /\ UNCHANGED <<args, env, certVars, ddnsVars>>

-----------------------------------------------------------------------------
(* CertificateManager.check_certificate_expiry *)

FqdnA == <<"a">>
FqdnB == <<"b">>

\* the default of certificate.renewal_threshold_days
default_renewal_threshold == 30

OnValueError_NoRenewal == FALSE

\* the value returned from `except ValueError`
OnValueError == TRUE

\* the value returned by check_certificate_expiry(domains) and the command it
\* runs; result is what subprocess.run does, now the day of datetime.now()
\* and whether it is 00:00:00 exactly
check_certificate_expiry(domains, result, renewal_threshold, now) ==
    LET Contains(s, sub) == Find(s, sub) # 0
        \* cmd = ["certbot", "certificates", "--domain", primary_domain]
        cmd == << <<<<"c", "e", "r", "t", "b", "o", "t">>, <<"c", "e", "r", "t", "i", "f", "i", "c", "a", "t", "e", "s">>, <<"-", "-", "d", "o", "m", "a", "i", "n">>, domains[1]>> >>
        \* the domains listed after "Domains:" on its line
        cert_domains_in ==
            IF Contains(result.stdout, <<"D", "o", "m", "a", "i", "n", "s", ":">>)
            THEN SplitWhitespace(Strip(Split(SplitStr(result.stdout, <<"D", "o", "m", "a", "i", "n", "s", ":">>)[2], "\n")[1]))
            ELSE <<>>
        expiration_part == Split(SplitStr(result.stdout, <<"V", "A", "L", "I", "D", ":", " ">>)[2], "\n")[1]
        days == int(Split(expiration_part, " ")[1])
        expiration_date == strptime(expiration_part)
        \* (expiration_date - datetime.now()).days: whole days, rounded down
        days_to_expiry ==
            toordinal(expiration_date.year, expiration_date.month, expiration_date.day)
            - toordinal(now.year, now.month, now.day)
            - (IF now.midnight THEN 0 ELSE 1)
        value ==
            IF result.raises THEN TRUE
            ELSE IF result.returncode # 0 THEN TRUE
            ELSE IF Contains(result.stdout, <<"N", "o", " ", "c", "e", "r", "t", "i", "f", "i", "c", "a", "t", "e", "s", " ", "f", "o", "u", "n", "d", ".">>) THEN TRUE
            ELSE IF \E i \in 1..Len(domains) : domains[i] \notin Range(cert_domains_in)
                 THEN TRUE
            ELSE IF ~Contains(result.stdout, <<"V", "A", "L", "I", "D", ":", " ">>) THEN TRUE
            ELSE IF Contains(expiration_part, <<"d", "a", "y", "s", ")">>)
                 THEN IF ~days.ok THEN OnValueError
                      ELSE days.value <= renewal_threshold
                 ELSE IF ~expiration_date.ok THEN OnValueError
                      ELSE days_to_expiry <= renewal_threshold
    IN  IF domains = <<>>
        THEN [raised |-> FALSE, value |-> TRUE, calls |-> <<>>]
        ELSE [raised |-> FALSE, value |-> value, calls |-> cmd]

\* the calls examined: a group of domains, the time of the call, and what
\* subprocess.run(cmd, capture_output=True, text=True) does: it raises, or it
\* returns an exit status and what `certbot certificates` printed (a first
\* part about the certificate found, then a line about its expiry)
ExpiryCalls ==
    LET heads == { <<>>, <<"N", "o", " ", "c", "e", "r", "t", "i", "f", "i", "c", "a", "t", "e", "s", " ", "f", "o", "u", "n", "d", ".", "\n">>, <<"D", "o", "m", "a", "i", "n", "s", ":", " ", "a", "\n">>, <<"D", "o", "m", "a", "i", "n", "s", ":", " ", "a", " ", "b", "\n">> }
        markers == { <<>>, <<"(", "V", "A", "L", "I", "D", ":", " ">>, <<"(", "I", "N", "V", "A", "L", "I", "D", ":", " ">> }
        dates == { y \o <<sep>> \o m \o <<sep>> \o d :
                     y \in {<<"2", "0", "2", "7">>, <<"2", "7">>},
                     m \in {<<"0", "1">>, <<"1">>, <<"0", "2">>, <<"1", "3">>},
                     d \in {<<"0", "5">>, <<"0", "6">>, <<" ", "6">>, <<"3", "0">>, <<"0">>},
                     sep \in {"-", "/"} }
        days == { lead \o unit :
                    lead \in {<<"8", "9">>, <<"3", "0">>, <<"3", "1">>, <<"-", "1">>, <<"+", "3", "1">>, <<"8", "_", "9">>, <<"x">>, <<>>, <<"3", " ", "1">>},
                    unit \in {<<" ", "d", "a", "y", "s", ")">>, <<" ", "d", "a", "y", ")">>, <<"d", "a", "y", "s", ")">>} }
        outputs == { head \o marker \o text \o end :
                       head \in heads, marker \in markers,
                       text \in dates \cup days \cup {<<"E", "X", "P", "I", "R", "E", "D", ")">>},
                       end \in { <<>>, <<"\n">>, <<")", "\n">> } }
        runs == { [raises |-> TRUE, returncode |-> 0, stdout |-> <<>>] }
                \cup { [raises |-> FALSE, returncode |-> rc, stdout |-> out] :
                         rc \in {0, 1}, out \in outputs }
    IN  { [args |-> [method |-> "check_certificate_expiry", domains |-> ds,
                     renewal_threshold |-> default_renewal_threshold,
                     now |-> [year |-> 2026, month |-> 12, day |-> 6, midnight |-> mn]],
           env |-> run] :
            ds \in {<<>>, <<FqdnA>>, <<FqdnA, FqdnB>>}, mn \in BOOLEAN, run \in runs }

ExpiryNext ==
    CallReturns("check_certificate_expiry",
                check_certificate_expiry(args.domains, env, args.renewal_threshold, args.now))

ExpirySpec == CallInit(ExpiryCalls) /\ [][ExpiryNext]_vars

\* ---- the expiry stated from the text, without the parser's conversions ----

\* every text that names a day of the years 2026 and 2027 in the form Y-m-d,
\* in each spelling %m accepts for a month and %d for a day of the month
CalendarDateTexts ==
    LET DigitChar(v) == CHOOSE c \in DOMAIN DigitValue : DigitValue[c] = v
        TwoDigits(n) == <<DigitChar(n \div 10), DigitChar(n % 10)>>
        FourDigits(n) == TwoDigits(n \div 100) \o TwoDigits(n % 100)
        MonthSpellings(n) == {TwoDigits(n)} \cup (IF n < 10 THEN {<<DigitChar(n)>>} ELSE {})
        DaySpellings(n) ==
            {TwoDigits(n)}
            \cup (IF n < 10 THEN {<<DigitChar(n)>>, <<" ", DigitChar(n)>>} ELSE {})
    IN  UNION { { FourDigits(t[1]) \o <<"-">> \o mm \o <<"-">> \o dd :
                    mm \in MonthSpellings(t[2]), dd \in DaySpellings(t[3]) } :
                t \in { u \in {2026, 2027} \X (1..12) \X (1..31) :
                           u[3] <= DaysInMonth(u[1], u[2]) } }

\* the output holds no usable expiry: no "VALID: " marker, or after the first
\* marker and up to the end of its line either a "days)" phrase whose leading
\* token is not an integer literal (an optional sign, then digits, single
\* underscores allowed between two digits) or a text that is no calendar date
NoParsableExpiry(stdout) ==
    LET Digit == DOMAIN DigitValue
        marker == Find(stdout, <<"V", "A", "L", "I", "D", ":", " ">>)
        from == marker + 7
        nl == {i \in from..Len(stdout) : stdout[i] = "\n"}
        to == IF nl = {} THEN Len(stdout) ELSE SetMin(nl) - 1
        text == SubSeq(stdout, from, to)
        sp == {i \in 1..Len(text) : text[i] = " "}
        token == IF sp = {} THEN text ELSE SubSeq(text, 1, SetMin(sp) - 1)
        body == IF token # <<>> /\ token[1] \in {"+", "-"} THEN Tail(token) ELSE token
        integer ==
            /\ body # <<>>
            /\ \A i \in 1..Len(body) :
                  \/ body[i] \in Digit
                  \/ /\ body[i] = "_"
                     /\ 1 < i /\ i < Len(body)
                     /\ body[i - 1] \in Digit /\ body[i + 1] \in Digit
    IN  \/ marker = 0
        \/ IF Find(text, <<"d", "a", "y", "s", ")">>) # 0 THEN ~integer ELSE text \notin CalendarDateTexts

\* C11 (fail-safe renewal): when the status command raised or exited non-zero,
\* or its output has no "VALID: " marker, or a "days)" phrase whose leading
\* token is not an integer, or a text that is not a date in the form Y-m-d,
\* check_certificate_expiry returns True and raises nothing.
C11_FailSafeRenewal ==
    (fpc = "done"
     /\ (env.raises \/ env.returncode # 0 \/ NoParsableExpiry(env.stdout)))
    => returned = [raised |-> FALSE, value |-> TRUE]

\* the status command succeeded, the certificate covers the group, and the
\* only doubt is the unreadable number of days
C11_Witness ==
    /\ fpc = "done"
    /\ args.domains = <<FqdnA>>
    /\ ~env.raises
    /\ env.returncode = 0
    /\ env.stdout = <<"D", "o", "m", "a", "i", "n", "s", ":", " ", "a", "\n", "(", "V", "A", "L", "I", "D", ":", " ", "x", " ", "d", "a", "y", "s", ")", "\n">>
    /\ returned.value = TRUE

-----------------------------------------------------------------------------
(* CertificateManager.obtain_certificate *)

\* the command line built by obtain_certificate
ObtainCommand(domains, staging, email) ==
    LET \* has_wildcard = any("*" in domain for domain in domains)
        has_wildcard == \E i \in 1..Len(domains) : Find(domains[i], <<"*">>) # 0
        \* for domain in domains: cmd.extend(["-d", domain])
        RECURSIVE domain_options(_)
        domain_options(ds) ==
            IF ds = <<>> THEN <<>>
            ELSE <<<<"-", "d">>, Head(ds)>> \o domain_options(Tail(ds))
    IN  << <<"c", "e", "r", "t", "b", "o", "t">>, <<"c", "e", "r", "t", "o", "n", "l", "y">>, <<"-", "-", "d", "n", "s", "-", "c", "l", "o", "u", "d", "f", "l", "a", "r", "e">>,
           <<"-", "-", "d", "n", "s", "-", "c", "l", "o", "u", "d", "f", "l", "a", "r", "e", "-", "c", "r", "e", "d", "e", "n", "t", "i", "a", "l", "s">>, <<"/", "r", "o", "o", "t", "/", ".", "s", "e", "c", "r", "e", "t", "s", "/", "c", "l", "o", "u", "d", "f", "l", "a", "r", "e", ".", "i", "n", "i">>,
           <<"-", "-", "e", "m", "a", "i", "l">>, email, <<"-", "-", "a", "g", "r", "e", "e", "-", "t", "o", "s">>, <<"-", "-", "n", "o", "n", "-", "i", "n", "t", "e", "r", "a", "c", "t", "i", "v", "e">> >>
        \o (IF staging THEN << <<"-", "-", "s", "t", "a", "g", "i", "n", "g">> >> ELSE <<>>)
        \o (IF has_wildcard
            THEN << <<"-", "-", "s", "e", "r", "v", "e", "r">>, <<"h", "t", "t", "p", "s", ":", "/", "/", "a", "c", "m", "e", "-", "v", "0", "2", ".", "a", "p", "i", ".", "l", "e", "t", "s", "e", "n", "c", "r", "y", "p", "t", ".", "o", "r", "g", "/", "d", "i", "r", "e", "c", "t", "o", "r", "y">>,
                    <<"-", "-", "d", "n", "s", "-", "c", "l", "o", "u", "d", "f", "l", "a", "r", "e", "-", "p", "r", "o", "p", "a", "g", "a", "t", "i", "o", "n", "-", "s", "e", "c", "o", "n", "d", "s">>, <<"6", "0">> >>
            ELSE <<>>)
        \o domain_options(domains)

obtain_certificate_Retrying(a, result) ==
    LET cmd == << ObtainCommand(a.domains, a.staging, a.email) >>
    IN  IF ~result.raises /\ result.returncode = 0
        THEN [raised |-> FALSE, value |-> "True", calls |-> cmd]
        ELSE [raised |-> FALSE, value |-> "False", calls |-> cmd \o cmd]

\* how obtain_certificate(domains) of lecf/managers/certificate.py ends, and
\* the subprocesses it started: none when domains[0] raised IndexError
obtain_certificate(a, result) ==
    IF a.domains = <<>> THEN [raised |-> FALSE, value |-> "False", calls |-> <<>>]
    ELSE LET cmd == << ObtainCommand(a.domains, a.staging, a.email) >>
         IN  IF result.raises THEN [raised |-> FALSE, value |-> "False", calls |-> cmd]
             ELSE IF result.returncode = 0
                  THEN [raised |-> FALSE, value |-> "True", calls |-> cmd]
             ELSE [raised |-> FALSE, value |-> "False", calls |-> cmd]

\* how obtain_certificate(domains) of certificate_manager.py ends: it has no
\* return statement, raises on a non-zero exit and re-raises what it catches
legacy_obtain_certificate(a, result) ==
    IF a.domains = <<>> THEN [raised |-> TRUE, value |-> "None", calls |-> <<>>]
    ELSE LET cmd == << ObtainCommand(a.domains, a.staging, a.email) >>
         IN  IF result.raises THEN [raised |-> TRUE, value |-> "None", calls |-> cmd]
             ELSE IF result.returncode = 0
                  THEN [raised |-> FALSE, value |-> "None", calls |-> cmd]
             ELSE [raised |-> TRUE, value |-> "None", calls |-> cmd]

\* the calls examined: a group of domains, with or without a wildcard or a
\* name that holds a `*` after its first character, and
\* what subprocess.run(cmd, capture_output=True, text=True) does: it raises,
\* or it returns an exit status and what `certbot certonly` printed
ObtainCalls ==
    LET Wildcard == <<"*", ".", "a">>
        runs == { [raises |-> TRUE, returncode |-> 0, stdout |-> <<>>] }
                \cup { [raises |-> FALSE, returncode |-> rc, stdout |-> out] :
                         rc \in {0, 1, 2},
                         out \in { <<>>, <<"S", "u", "c", "c", "e", "s", "s", "f", "u", "l", "l", "y", " ", "r", "e", "c", "e", "i", "v", "e", "d", " ", "c", "e", "r", "t", "i", "f", "i", "c", "a", "t", "e", ".">>, <<"e", "r", "r", "o", "r">> } }
    IN  { [args |-> [method |-> "obtain_certificate", domains |-> ds,
                     staging |-> st, email |-> <<"e", "@", "x">>],
           env |-> run] :
            ds \in {<<>>, <<FqdnA>>, <<FqdnA, FqdnB>>, <<Wildcard, FqdnA>>, <<FqdnB, Wildcard>>,
                    <<FqdnA, <<"b", "*", ".", "a">>>>, <<<<"b", ".", "*">>>>},
            st \in BOOLEAN, run \in runs }

ObtainNext == CallReturns("obtain_certificate", obtain_certificate(args, env))

ObtainSpec == CallInit(ObtainCalls) /\ [][ObtainNext]_vars

LegacyObtainNext == CallReturns("obtain_certificate", legacy_obtain_certificate(args, env))

LegacyObtainSpec == CallInit(ObtainCalls) /\ [][LegacyObtainNext]_vars

\* C12 (acquisition result): obtain_certificate returns True exactly when the
\* CA-client subprocess was started and exited with status 0; otherwise
\* (non-zero exit, or an exception while building or running the command) it
\* returns False; it never raises, and what the subprocess printed plays no
\* part.
C12_AcquisitionResult ==
    fpc = "done"
    => /\ ~returned.raised
       /\ returned.value = (IF trace # <<>> /\ ~env.raises /\ env.returncode = 0
                            THEN "True" ELSE "False")

\* a successful run whose output says "error", and a failed one whose output
\* says success
C12_Witness ==
    /\ fpc = "done"
    /\ \/ env.returncode = 0 /\ env.stdout = <<"e", "r", "r", "o", "r">> /\ returned.value = "True"
       \/ env.returncode = 2 /\ env.stdout = <<"S", "u", "c", "c", "e", "s", "s", "f", "u", "l", "l", "y", " ", "r", "e", "c", "e", "i", "v", "e", "d", " ", "c", "e", "r", "t", "i", "f", "i", "c", "a", "t", "e", ".">>
          /\ returned.value = "False"
    /\ ~env.raises
    /\ args.domains # <<>>

-----------------------------------------------------------------------------
(* CloudflareClient (lecf/core/cloudflare_client.py), method by method *)

\* the value a call leaves in a variable that was v before it: an exception
\* leaves the variable as it was
Assigned(outcome, v) == IF outcome.kind \in {"raise", "TypeError"} THEN v ELSE outcome

\* ---- get_zone_id ----

NoZone == <<None, None>>

TooFewLabels_OnlyEmpty(parts) == parts = << <<>> >>

\* not (len(parts) >= 2)
TooFewLabels(parts) == Len(parts) < 2

\* get_zone_id(domain): the pair returned and the library calls made
get_zone_id(domain, cf) ==
    LET parts == Split(domain, ".")
        n == Len(parts)
        zone_name == Join(SubSeq(parts, IF n >= 2 THEN n - 1 ELSE 1, n), ".")
        \* Method 1: zones.list()
        r1 == IF cf.has_zones_list THEN Assigned(cf.zones_list, Gives("None"))
              ELSE Gives("None")
        t1 == IF cf.has_zones_list THEN <<"zones.list()">> ELSE <<>>
        \* Method 2: zones()
        r2 == IF Truthy(r1) THEN r1 ELSE Assigned(cf.zones_call, r1)
        t2 == IF Truthy(r1) THEN t1 ELSE Append(t1, "zones()")
        \* Method 3: list_zones()
        r3 == IF Truthy(r2) \/ ~cf.has_list_zones THEN r2 ELSE Assigned(cf.list_zones, r2)
        t3 == IF Truthy(r2) \/ ~cf.has_list_zones THEN t2 ELSE Append(t2, "list_zones()")
        matching_zones ==
            SelectSeq(r3.items, LAMBDA zone : "name" \in DOMAIN zone /\ zone.name = zone_name)
        zone == matching_zones[1]
        value == IF ~Truthy(r3) THEN NoZone
                 ELSE IF r3.kind # "list" THEN NoZone
                 ELSE IF matching_zones = <<>> THEN NoZone
                 ELSE IF "id" \notin DOMAIN zone THEN NoZone
                 ELSE <<zone.id, zone.name>>
    IN  IF TooFewLabels(parts) THEN [raised |-> FALSE, value |-> NoZone, calls |-> <<>>]
        ELSE [raised |-> FALSE, value |-> value, calls |-> t3]

\* the calls examined: domains of zero, one, two and three labels, and the
\* cloudflare library as get_zone_id meets it, each listing method raising,
\* returning nothing, or returning the account's zones, the same with a second
\* zone of the same name, or a listing whose matching zone carries no id
ZoneIdCalls ==
    LET listings ==
            { RemoteZones,
              << [id |-> Zid2, name |-> ZoneA], [id |-> Zid1, name |-> ZoneA] >>,
              << [name |-> ZoneA], [id |-> Zid2, name |-> ZoneB] >> }
        outcomes == {Gives("raise"), Gives("None"), ListOf(<<>>), Gives("object")}
                    \cup {ListOf(l) : l \in listings}
        libraries ==
            [has_zones_list : BOOLEAN, zones_list : outcomes, zones_call : outcomes,
             has_list_zones : BOOLEAN, list_zones : outcomes]
    IN  { [args |-> [method |-> "get_zone_id", domain |-> d], env |-> cf] :
            d \in { ZoneA, W \o <<".">> \o ZoneA, <<"c">>, <<>>, <<"a", ".">>, <<"x", ".", "y">> },
            cf \in libraries }

\* ---- _direct_api_request ----

\* _direct_api_request(method, ...): the value returned and the library calls
\* made; `reply` is the parsed body of the remote authority's proper response
DirectApiRequest(method, cf, reply) ==
    LET first == IF cf.request = Gives("answer") THEN reply ELSE cf.request
        alt == IF method = "put" THEN "_request_put" ELSE "_request_delete"
        second == IF cf.request_alt = Gives("answer") THEN reply ELSE cf.request_alt
    IN  IF ~cf.has_request THEN [value |-> Gives("None"), calls |-> <<>>]
        ELSE IF first.kind = "TypeError" /\ method \in {"put", "delete"}
             THEN IF cf.has_request_alt
                  THEN [value |-> Assigned(second, Gives("None")),
                        calls |-> <<"_request", alt>>]
                  ELSE [value |-> Gives("None"), calls |-> <<"_request">>]
        ELSE [value |-> Assigned(first, Gives("None")), calls |-> <<"_request">>]

\* ---- get_dns_records ----

\* the id of a record held by the remote authority
Rid(n) == <<"r", n>>

MatchesParams_AnyKey(record, params) ==
    \E key \in DOMAIN params : Get(record, key, None) = params[key]

\* the record matches every key of params exactly
MatchesParams(record, params) ==
    \A key \in DOMAIN params : Get(record, key, None) = params[key]

\* an object is turned into a dict of the common attributes it has; a dict
\* is returned as it is
Normalize(record, is_dict) ==
    IF is_dict THEN record
    ELSE [attr \in DOMAIN record
                   \cap {"id", "type", "name", "content", "proxied", "ttl", "priority"}
            |-> record[attr]]

\* get_dns_records(zone_id, params): the list returned and the library calls made
get_dns_records(params, cf) ==
    LET query_params == params.dict
        listed == IF cf.server_filters
                  THEN SelectSeq(cf.zone_records, LAMBDA r : MatchesParams(r, query_params))
                  ELSE cf.zone_records
        direct == DirectApiRequest("get", cf,
                      DictOf([result |-> listed, success |-> TRUE]))
        response == direct.value
        \* `'result' in response` raises TypeError on an object that is no container
        failed == response.kind = "object"
        \* the methods tried one after the other inside the except branch
        all == ListOf(cf.zone_records)
        o1 == IF cf.dns_records_get = Gives("answer") THEN all ELSE cf.dns_records_get
        o2 == IF cf.zone_dns_records_list = Gives("answer") THEN all
              ELSE cf.zone_dns_records_list
        o3 == IF cf.dns_records_list = Gives("answer") THEN all ELSE cf.dns_records_list
        r1 == IF cf.has_dns_records THEN Assigned(o1, Gives("None")) ELSE Gives("None")
        t1 == IF cf.has_dns_records THEN <<"zones.dns_records.get">> ELSE <<>>
        r2 == IF Truthy(r1) THEN r1 ELSE Assigned(o2, r1)
        t2 == IF Truthy(r1) THEN t1 ELSE Append(t1, "zones[zone_id].dns_records.list")
        r3 == IF Truthy(r2) THEN r2 ELSE Assigned(o3, r2)
        t3 == IF Truthy(r2) THEN t2 ELSE Append(t2, "zones.dns_records.list")
        found == IF failed THEN r3.items
                 ELSE IF HasKey(response, "result") THEN response.body.result
                 ELSE <<>>
        \* `if params`: neither None nor {}
        filtered == IF params.given /\ DOMAIN params.dict # {}
                    THEN SelectSeq(found, LAMBDA r : MatchesParams(r, params.dict))
                    ELSE found
        value == IF failed /\ ~Truthy(r3) THEN <<>>
                 ELSE IF failed /\ r3.kind # "list" THEN <<>>
                 ELSE [i \in 1..Len(filtered) |-> Normalize(filtered[i], ~failed)]
    IN  [raised |-> FALSE, value |-> value,
         calls |-> direct.calls \o (IF failed THEN t3 ELSE <<>>)]

\* the calls examined: the `params` argument, not given (None) or a dict,
\* empty or not; the records the remote authority holds for the zone; whether
\* it applies the query's filter itself; and what each library call does
RecordsCalls ==
    LET listings ==
            { <<>>,
              << [id |-> Rid("1"), type |-> "A", name |-> ZoneA, content |-> Ip0,
                  ttl |-> 300, proxied |-> TRUE, created_on |-> 1],
                 [id |-> Rid("2"), type |-> "A", name |-> W \o <<".">> \o ZoneA,
                  content |-> Ip1, ttl |-> 60, proxied |-> FALSE, created_on |-> 2],
                 [id |-> Rid("3"), type |-> "AAAA", name |-> ZoneA, content |-> Ip1,
                  ttl |-> 60, proxied |-> FALSE, created_on |-> 3] >> }
        dicts == { [k \in {} |-> None], [name |-> ZoneA], [type |-> "A"],
                   [name |-> ZoneA, type |-> "A"],
                   [name |-> W \o <<".">> \o ZoneB, type |-> "A"] }
        fallbacks == {Gives("raise"), ListOf(<<>>), Gives("object"), Gives("answer")}
        libraries ==
            [has_request : BOOLEAN,
             request : {Gives("raise"), Gives("None"), Gives("object"),
                        DictOf([success |-> FALSE]), Gives("answer")},
             has_request_alt : {FALSE}, request_alt : {Gives("raise")},
             has_dns_records : BOOLEAN,
             dns_records_get : fallbacks, zone_dns_records_list : fallbacks,
             dns_records_list : fallbacks,
             zone_records : listings, server_filters : BOOLEAN]
    IN  { [args |-> [method |-> "get_dns_records", zone_id |-> Zid1, params |-> p],
           env |-> cf] :
            p \in {[given |-> FALSE, dict |-> [k \in {} |-> None]]}
                  \cup {[given |-> TRUE, dict |-> d] : d \in dicts},
            cf \in libraries }

\* ---- create_dns_record ----

\* create_dns_record(zone_id, record_data): the value returned and the
\* library calls made
create_dns_record(cf) ==
    LET direct == DirectApiRequest("post", cf,
                      DictOf([result |-> [id |-> Rid("3")], success |-> TRUE]))
        response == direct.value
        \* Method 1, and Method 2 if Method 1 raised
        result == IF cf.post.kind # "raise" THEN cf.post
                  ELSE Assigned(cf.create, Gives("None"))
        methods == IF cf.post.kind # "raise"
                   THEN <<"zones.dns_records.post">>
                   ELSE <<"zones.dns_records.post", "zones[zone_id].dns_records.create">>
        \* the record id found in what a create method returned, or None
        record_id ==
            IF HasAttr(result, "id") THEN result.attrs.id
            ELSE IF HasKey(result, "id") THEN result.body.id
            ELSE IF HasAttr(result, "result") /\ "id" \in DOMAIN result.attrs.result
                 THEN result.attrs.result.id
            ELSE IF HasKey(result, "result") /\ "id" \in DOMAIN result.body.result
                 THEN result.body.result.id
            ELSE None
    IN  IF HasKey(response, "result") /\ "id" \in DOMAIN response.body.result
        THEN [raised |-> FALSE, value |-> response.body.result.id, calls |-> direct.calls]
        ELSE IF ~Truthy(result)
             THEN [raised |-> FALSE, value |-> None, calls |-> direct.calls \o methods]
        ELSE [raised |-> FALSE, value |-> record_id, calls |-> direct.calls \o methods]

\* the calls examined: what the direct POST comes back with, and what the
\* library's own create methods come back with
CreateCalls ==
    LET outcomes ==
            {Gives("raise"), Gives("None"), Gives("object"),
             ObjectWith([id |-> Rid("3")]), DictOf([id |-> Rid("3")]),
             DictOf([result |-> [id |-> Rid("3")]]),
             ObjectWith([result |-> [id |-> Rid("3")]])}
        libraries ==
            [has_request : BOOLEAN,
             request : {Gives("raise"), Gives("None"), Gives("object"),
                        DictOf([success |-> FALSE]),
                        DictOf([result |-> [name |-> ZoneA]]), Gives("answer")},
             has_request_alt : {FALSE}, request_alt : {Gives("raise")},
             post : outcomes, create : outcomes]
    IN  { [args |-> [method |-> "create_dns_record", zone_id |-> Zid1,
                     record_data |-> CreateRecord(ZoneA, "A", Ip1)],
           env |-> cf] : cf \in libraries }

\* ---- update_dns_record and delete_dns_record ----

\* update_dns_record and delete_dns_record have the same shape: the direct
\* request with `verb`, then Method 1, then Method 2 if Method 1 raised; the
\* object the library builds from a proper response is truthy
WriteOrDelete(verb, names, cf) ==
    LET direct == DirectApiRequest(verb, cf, DictOf([success |-> TRUE]))
        response == direct.value
        o1 == IF cf.method1 = Gives("answer") THEN Gives("object") ELSE cf.method1
        o2 == IF cf.method2 = Gives("answer") THEN Gives("object") ELSE cf.method2
        result == IF o1.kind # "raise" THEN o1 ELSE Assigned(o2, Gives("None"))
        methods == IF o1.kind # "raise" THEN <<names[1]>> ELSE names
    IN  IF HasKey(response, "success") /\ response.body.success
        THEN [raised |-> FALSE, value |-> "True", calls |-> direct.calls]
        ELSE IF ~Truthy(result) /\ ~Truthy(response)
             THEN [raised |-> FALSE, value |-> "False", calls |-> direct.calls \o methods]
        ELSE [raised |-> FALSE, value |-> "True", calls |-> direct.calls \o methods]

update_dns_record(cf) ==
    WriteOrDelete("put",
        <<"zones.dns_records.put", "zones[zone_id].dns_records[record_id].update">>, cf)

delete_dns_record(cf) ==
    WriteOrDelete("delete",
        <<"zones.dns_records.delete", "zones[zone_id].dns_records[record_id].delete">>, cf)

\* the calls examined: what the direct PUT or DELETE comes back with, and
\* what the library's own update and delete methods come back with
UpdateAndDeleteCalls ==
    LET outcomes == {Gives("raise"), Gives("None"), Gives("answer")}
        libraries ==
            [has_request : BOOLEAN,
             request : {Gives("raise"), Gives("TypeError"), Gives("None"),
                        Gives("object"), DictOf([success |-> FALSE]), Gives("answer")},
             has_request_alt : BOOLEAN, request_alt : outcomes,
             method1 : outcomes, method2 : outcomes]
    IN  { [args |-> [method |-> "update_dns_record", zone_id |-> Zid1,
                     record_id |-> Rid("1"),
                     record_data |-> CreateRecord(ZoneA, "A", Ip1)],
           env |-> cf] : cf \in libraries }
        \cup
        { [args |-> [method |-> "delete_dns_record", zone_id |-> Zid1,
                     record_id |-> Rid("1")],
           env |-> cf] : cf \in libraries }

\* ---- the client, one call at a time ----

ClientNext ==
    \/ CallReturns("get_zone_id", get_zone_id(args.domain, env))
    \/ CallReturns("get_dns_records", get_dns_records(args.params, env))
    \/ CallReturns("create_dns_record", create_dns_record(env))
    \/ CallReturns("update_dns_record", update_dns_record(env))
    \/ CallReturns("delete_dns_record", delete_dns_record(env))

ClientSpec ==
    CallInit(ZoneIdCalls \cup RecordsCalls \cup CreateCalls \cup UpdateAndDeleteCalls)
    /\ [][ClientNext]_vars

\* ---- properties of the client ----

\* C13 (zone resolution input check): get_zone_id called with a domain of
\* fewer than two dot-separated labels (a domain without a dot: a single
\* label, or empty) returns (None, None) and makes no call on the remote
\* authority.
C13_ZoneInputCheck ==
    (fpc = "done" /\ args.method = "get_zone_id"
     /\ \A i \in 1..Len(args.domain) : args.domain[i] # ".")
    => /\ returned = [raised |-> FALSE, value |-> NoZone]
       /\ trace = <<>>

\* a single label, with a library that would have listed the zones
C13_Witness ==
    /\ fpc = "done"
    /\ args.method = "get_zone_id"
    /\ args.domain = <<"c">>
    /\ env.has_zones_list
    /\ env.zones_list = ListOf(RemoteZones)
    /\ trace = <<>>
    /\ returned.value = NoZone

\* the records of the zone that the filter selects, in the zone's order
WantedRecords(zone_records, params) ==
    IF params.given
    THEN SelectSeq(zone_records, LAMBDA r :
            \A key \in DOMAIN params.dict :
                key \in DOMAIN r /\ r[key] = params.dict[key])
    ELSE zone_records

\* the same records in the same order, each with the values the zone holds
SameRecords(got, wanted) ==
    /\ Len(got) = Len(wanted)
    /\ \A i \in 1..Len(got) :
          /\ "id" \in DOMAIN got[i]
          /\ got[i].id = wanted[i].id
          /\ \A attr \in DOMAIN got[i] : got[i][attr] = wanted[i][attr]

\* some call on the library gave back the zone's listing
ListingAnswered ==
    \/ env.has_request /\ env.request = Gives("answer")
    \/ env.has_dns_records /\ env.dns_records_get = Gives("answer")
    \/ env.zone_dns_records_list = Gives("answer")
    \/ env.dns_records_list = Gives("answer")

\* C14 (record filter): get_dns_records returns, in the zone's order, exactly
\* the records of the zone whose fields equal every key of params; all the
\* records of the zone when params is empty or absent; and the empty list
\* when the listing could not be retrieved.  It returns nothing else.
C14_RecordFilter ==
    (fpc = "done" /\ args.method = "get_dns_records")
    => LET wanted == WantedRecords(env.zone_records, args.params)
       IN  /\ ~returned.raised
           /\ returned.value = <<>> \/ SameRecords(returned.value, wanted)
           /\ (env.has_request /\ env.request = Gives("answer"))
              => SameRecords(returned.value, wanted)
           /\ ~ListingAnswered => returned.value = <<>>

\* a listing of three records, not filtered by the server, of which the
\* filter {name, type} keeps one
C14_Witness ==
    /\ fpc = "done"
    /\ args.method = "get_dns_records"
    /\ args.params = [given |-> TRUE, dict |-> [name |-> ZoneA, type |-> "A"]]
    /\ env.has_request /\ env.request = Gives("answer") /\ ~env.server_filters
    /\ Len(env.zone_records) = 3
    /\ Len(returned.value) = 1
    /\ returned.value[1].id = Rid("1")

\* every call the method could make on the library raises, returns nothing,
\* or returns something that is not an answer to the request
NothingAnswered ==
    CASE args.method = "get_zone_id" ->
            {env.zones_list, env.zones_call, env.list_zones}
                \subseteq {Gives("raise"), Gives("None"), ListOf(<<>>), Gives("object")}
      [] args.method = "get_dns_records" -> ~ListingAnswered
      [] args.method = "create_dns_record" ->
            /\ env.request # Gives("answer")
            /\ {env.post, env.create}
                  \subseteq {Gives("raise"), Gives("None"), Gives("object")}
      [] args.method \in {"update_dns_record", "delete_dns_record"} ->
            /\ env.request # Gives("answer")
            /\ env.request_alt # Gives("answer")
            /\ env.method1 # Gives("answer")
            /\ env.method2 # Gives("answer")

\* the failure value is returned whenever nothing answered, for the methods named
SentinelFailuresOf(methods) ==
    (fpc = "done" /\ args.method \in methods /\ NothingAnswered)
    => returned =
         [raised |-> FALSE,
          value |-> CASE args.method = "get_zone_id" -> NoZone
                      [] args.method = "get_dns_records" -> <<>>
                      [] args.method = "create_dns_record" -> None
                      [] args.method = "update_dns_record" -> "False"
                      [] args.method = "delete_dns_record" -> "False"]

\* C15 (sentinel failures): whatever the underlying library calls do (raise,
\* return nothing, return malformed data), get_zone_id, get_dns_records,
\* create_dns_record, update_dns_record and delete_dns_record return normally,
\* with (None, None), [], None, False and False respectively.
C15_SentinelFailures ==
    SentinelFailuresOf({"get_zone_id", "get_dns_records", "create_dns_record",
                        "update_dns_record", "delete_dns_record"})

\* the same for the three methods that do not end with
\* `if not result and not response`
C15_SentinelFailuresOfReadsAndCreate ==
    SentinelFailuresOf({"get_zone_id", "get_dns_records", "create_dns_record"})

-----------------------------------------------------------------------------
(* BaseManager.run (base_manager.py) *)

Caught_OnlyExactClass(error_type) == error_type = "Exception"

\* `except Exception`: the clause matches an exception whose class is
\* Exception or derives from it
Caught(error_type) ==
    LET base == [BaseException |-> "object", Exception |-> "BaseException",
                 LookupError |-> "Exception", KeyError |-> "LookupError",
                 ValueError |-> "Exception", RuntimeError |-> "Exception",
                 KeyboardInterrupt |-> "BaseException", SystemExit |-> "BaseException",
                 GeneratorExit |-> "BaseException"]
        RECURSIVE derives(_)
        derives(c) == IF c = "Exception" THEN TRUE
                      ELSE IF c = "object" THEN FALSE
                      ELSE derives(base[c])
    IN  derives(error_type)

\* run(): how it ends, and the calls it made on the logger and on
\* _execute_cycle, in order
run(service_name, execute_cycle) ==
    LET Entry(op, error, error_type) ==
            [op |-> op, service |-> service_name, error |-> error, error_type |-> error_type]
        begun == << Entry("logger.info: Running cycle", "", ""),
                    Entry("_execute_cycle", "", "") >>
    IN  IF ~execute_cycle.raises
        THEN [raised |-> FALSE, value |-> "None",
              calls |-> Append(begun, Entry("logger.info: cycle completed", "", ""))]
        ELSE IF Caught(execute_cycle.error_type)
        THEN [raised |-> FALSE, value |-> "None",
              calls |-> Append(begun, Entry("logger.error: Error during cycle",
                                            execute_cycle.error, execute_cycle.error_type))]
        ELSE [raised |-> TRUE, value |-> "None", calls |-> begun]

\* the calls examined: a manager of either service whose _execute_cycle
\* returns, or raises an exception of some class with some message
RunCalls ==
    LET cycles ==
            {[raises |-> FALSE, error |-> "", error_type |-> ""]}
            \cup { [raises |-> TRUE, error |-> e, error_type |-> t] :
                     e \in {"", "Test error", "timed out", "1"},
                     t \in {"Exception", "ValueError", "KeyError", "RuntimeError",
                            "KeyboardInterrupt", "SystemExit", "GeneratorExit"} }
    IN  { [args |-> [method |-> "run", service_name |-> s], env |-> c] :
            s \in {"ddns", "certificate"}, c \in cycles }

RunNext == CallReturns("run", run(args.service_name, env))

RunSpec == CallInit(RunCalls) /\ [][RunNext]_vars

\* _execute_cycle was invoked exactly once
ExecutedOnce ==
    Cardinality({i \in 1..Len(trace) : trace[i].op = "_execute_cycle"}) = 1

\* the exception of the cycle was logged as an error, with its message and class
ErrorLogged ==
    \E i \in 1..Len(trace) :
        trace[i] = [op |-> "logger.error: Error during cycle",
                    service |-> args.service_name,
                    error |-> env.error, error_type |-> env.error_type]

\* C16 (cycle boundary), amended: BaseManager.run invokes _execute_cycle exactly
\* once and, whatever exception other than a keyboard interrupt, an interpreter
\* exit or a generator exit _execute_cycle raises, logs it and returns normally.
C16_CycleBoundary ==
    (fpc = "done" /\ args.method = "run")
    => /\ ExecutedOnce
       /\ ~env.raises => ~returned.raised
       /\ (env.raises
           /\ env.error_type \notin {"KeyboardInterrupt", "SystemExit", "GeneratorExit"})
          => (ErrorLogged /\ ~returned.raised)

\* a cycle that raised KeyError("timed out") was logged and run returned
C16_Witness ==
    /\ fpc = "done"
    /\ args.method = "run"
    /\ env.raises
    /\ env.error_type = "KeyError"
    /\ env.error = "timed out"
    /\ ErrorLogged
    /\ ~returned.raised

\* C16 as stated: whatever exception _execute_cycle raises, run logs it and
\* returns normally
C16_CycleBoundaryEveryException ==
    (fpc = "done" /\ args.method = "run")
    => /\ ExecutedOnce
       /\ env.raises => (ErrorLogged /\ ~returned.raised)

-----------------------------------------------------------------------------
(* schedule_managers (lecf/cli.py, main.py), up to the scheduler loop *)

\* AVAILABLE_MANAGERS, in the order of the dict
AVAILABLE_MANAGERS == <<"certificate", "ddns">>

NoManagers_Never(managers) == FALSE

\* `if not managers`
NoManagers(managers) == managers = <<>>

\* schedule_managers(run_once=True): how it ends and, in order, the calls it
\* made on initialize_manager, on the managers, on schedule and on sys.exit.
\* world.init[key] is what initialize_manager(key) does, world.run[key] what
\* manager.run() does, world.unit[key] the unit of get_schedule_info()
schedule_managers(world) ==
    LET Event(op, key, detail) == [op |-> op, key |-> key, detail |-> detail]
        keys == AVAILABLE_MANAGERS
        Escapes(outcome) == outcome.raises /\ ~Caught(outcome.error_type)
        \* Initialize all available managers
        stopped1 == {i \in 1..Len(keys) : Escapes(world.init[keys[i]])}
        tried == IF stopped1 = {} THEN keys ELSE SubSeq(keys, 1, SetMin(stopped1))
        inits == [i \in 1..Len(tried) |-> Event("initialize_manager", tried[i], "")]
        managers == SelectSeq(tried, LAMBDA key : ~world.init[key].raises)
        \* Schedule all managers
        stopped2 == {i \in 1..Len(managers) : Escapes(world.run[managers[i]])}
        Scheduled(key) ==
            Event("schedule.every.do", key,
                  IF world.unit[key] \in {"minutes", "hours", "days"}
                  THEN world.unit[key] ELSE "hours")
        RECURSIVE set_up(_)
        set_up(ms) ==
            IF ms = <<>> THEN <<>>
            ELSE IF Escapes(world.run[Head(ms)]) THEN << Event("run", Head(ms), "") >>
            ELSE << Event("run", Head(ms), ""), Scheduled(Head(ms)) >> \o set_up(Tail(ms))
    IN  IF stopped1 # {}
        THEN [raised |-> TRUE, value |-> world.init[keys[SetMin(stopped1)]].error_type,
              calls |-> inits]
        ELSE IF NoManagers(managers)
        THEN [raised |-> TRUE, value |-> "SystemExit(1)",
              calls |-> Append(inits, Event("sys.exit", "", "1"))]
        ELSE IF stopped2 # {}
        THEN [raised |-> TRUE,
              value |-> world.run[managers[SetMin(stopped2)]].error_type,
              calls |-> inits \o set_up(managers)]
        ELSE [raised |-> FALSE, value |-> "None", calls |-> inits \o set_up(managers)]

\* the calls examined: each manager's initialisation and initial cycle
\* returns, fails with an error, or is interrupted; each manager's unit
ScheduleCalls ==
    LET outcomes == { [raises |-> FALSE, error_type |-> ""],
                      [raises |-> TRUE, error_type |-> "ValueError"],
                      [raises |-> TRUE, error_type |-> "Exception"],
                      [raises |-> TRUE, error_type |-> "KeyboardInterrupt"] }
        keys == {AVAILABLE_MANAGERS[i] : i \in 1..Len(AVAILABLE_MANAGERS)}
    IN  { [args |-> [method |-> "schedule_managers", run_once |-> TRUE],
           env |-> [init |-> i, run |-> r, unit |-> u]] :
            i \in [keys -> outcomes], r \in [keys -> outcomes],
            u \in [keys -> {"minutes", "hours", "days", "weeks"}] }

ScheduleNext == CallReturns("schedule_managers", schedule_managers(env))

ScheduleSpec == CallInit(ScheduleCalls) /\ [][ScheduleNext]_vars

\* the number of calls of `op` made for manager `key`
TimesCalled(op, key) ==
    Cardinality({i \in 1..Len(trace) : trace[i].op = op /\ trace[i].key = key})

\* nothing interrupted the set-up: every failure is an error
NoInterrupt ==
    \A key \in DOMAIN env.init :
        /\ env.init[key].error_type # "KeyboardInterrupt"
        /\ env.run[key].error_type # "KeyboardInterrupt"

\* C17 (manager initialisation): schedule_managers attempts to initialise
\* every available manager; a manager whose initialisation fails is left out
\* while the others are still run and scheduled; if no manager at all could
\* be initialised the process exits with status 1 before any cycle is run or
\* any job scheduled.
C17_ManagerInitialisation ==
    (fpc = "done" /\ args.method = "schedule_managers" /\ NoInterrupt)
    => /\ \A key \in DOMAIN env.init :
             /\ TimesCalled("initialize_manager", key) = 1
             /\ TimesCalled("run", key) = (IF env.init[key].raises THEN 0 ELSE 1)
             /\ TimesCalled("schedule.every.do", key)
                  = (IF env.init[key].raises THEN 0 ELSE 1)
       /\ IF \A key \in DOMAIN env.init : env.init[key].raises
          THEN /\ returned = [raised |-> TRUE, value |-> "SystemExit(1)"]
               /\ trace[Len(trace)].op = "sys.exit"
               /\ trace[Len(trace)].detail = "1"
          ELSE /\ returned = [raised |-> FALSE, value |-> "None"]
               /\ \A i \in 1..Len(trace) : trace[i].op # "sys.exit"

\* the certificate manager failed to initialise and the DDNS manager was
\* run and scheduled
C17_Witness ==
    /\ fpc = "done"
    /\ args.method = "schedule_managers"
    /\ env.init["certificate"].raises
    /\ ~env.init["ddns"].raises
    /\ NoInterrupt
    /\ TimesCalled("run", "ddns") = 1
    /\ TimesCalled("schedule.every.do", "ddns") = 1
    /\ TimesCalled("run", "certificate") = 0
    /\ ~returned.raised

-----------------------------------------------------------------------------
(* DdnsManager._parse_domains, one call at a time *)

\* the longest `ddns.domains` list examined
MaxEntries == 2

\* the calls examined: lists of entries that are not mappings, or mappings
\* with `domain` missing, null, empty or given, `subdomains` missing, null, a
\* string or a list, and `record_types` missing, null, a string or a list
ParseCalls ==
    LET domains == {Gives("None"), StrOf(<<>>), StrOf(ZoneA), StrOf(ZoneB)}
        subdomains ==
            {Gives("None"), StrOf(<<>>), StrOf(<<" ", ",", " ">>), StrOf(<<"@", ",", "w">>),
             StrOf(<<" ", "w", " ", ",", " ", ",", "@", " ">>), ListOf(<<>>), ListOf(<<At, <<>>>>)}
        record_types ==
            {Gives("None"), StrOf(<<"A", ",", " ", "A", "A", "A", "A">>), StrOf(<<" ", ",", " ">>), ListOf(<< <<"A">> >>)}
        entries ==
            {Gives("None"), StrOf(ZoneA), DictOf([subdomains |-> StrOf(At)])}
            \cup {DictOf([domain |-> d]) : d \in domains}
            \cup {DictOf([domain |-> d, subdomains |-> s]) : d \in domains, s \in subdomains}
            \cup {DictOf([domain |-> StrOf(ZoneA), record_types |-> t]) : t \in record_types}
        configs == UNION {[1..n -> entries] : n \in 0..MaxEntries}
    IN  { [args |-> [method |-> "_parse_domains", domains_config |-> c],
           env |-> Gives("None")] : c \in configs }

ParseNext ==
    CallReturns("_parse_domains",
                [raised |-> FALSE, value |-> parse_domains(args.domains_config),
                 calls |-> <<>>])

ParseSpec == CallInit(ParseCalls) /\ [][ParseNext]_vars

\* ---- the parser stated from the configuration ----

\* the entry is a mapping with a non-empty `domain` and, if it has a
\* `subdomains` key, a list with an item or a string with a non-blank field
WellFormed(entry) ==
    /\ entry.kind = "dict"
    /\ "domain" \in DOMAIN entry.body
    /\ entry.body.domain.kind = "str"
    /\ entry.body.domain.s # <<>>
    /\ "subdomains" \in DOMAIN entry.body
       => LET v == entry.body.subdomains
          IN  \/ v.kind = "list" /\ v.items # <<>>
              \/ v.kind = "str"
                 /\ \E sp \in FieldSpans(v.s, {","}) :
                       Trimmed(SubSeq(v.s, sp[1], sp[2])) # <<>>

\* the subdomains a well-formed entry asks for
ExpectedSubdomains(entry) ==
    IF "subdomains" \notin DOMAIN entry.body THEN << <<"@">> >>
    ELSE IF entry.body.subdomains.kind = "list" THEN entry.body.subdomains.items
    ELSE LET s == entry.body.subdomains.s
             spans == {sp \in FieldSpans(s, {","}) :
                          Trimmed(SubSeq(s, sp[1], sp[2])) # <<>>}
             nth(k) == CHOOSE sp \in spans :
                          Cardinality({q \in spans : q[1] < sp[1]}) = k - 1
         IN  [k \in 1..Cardinality(spans) |-> Trimmed(SubSeq(s, nth(k)[1], nth(k)[2]))]

-----------------------------------------------------------------------------
(* The record types of a DDNS cycle, stated from the targets *)

\* the target, the subdomain and the record type that the i-th invocation of
\* update_dns_record of a pass is due, counting the targets in their order,
\* the subdomains of each in their order and, for each subdomain, the types
\* ["A"] if the target has record_types = None and its own types otherwise
ExpectedTriple(i) ==
    LET Types(k) == IF ddns_domains[k].record_types = None THEN << <<"A">> >>
                    ELSE ddns_domains[k].record_types
        Count(k) == Len(ddns_domains[k].subdomains) * Len(Types(k))
        RECURSIVE Before(_)
        Before(k) == IF k = 1 THEN 0 ELSE Before(k - 1) + Count(k - 1)
        k == CHOOSE m \in 1..Len(ddns_domains) : Before(m) < i /\ i <= Before(m) + Count(m)
        o == i - Before(k) - 1
    IN  [domain |-> ddns_domains[k].domain,
         subdomain |-> ddns_domains[k].subdomains[(o \div Len(Types(k))) + 1],
         record_type |-> Types(k)[(o % Len(Types(k))) + 1],
         count |-> Before(Len(ddns_domains)) + Count(Len(ddns_domains))]

\* C19 (record-type default): an entry without `record_types` is stored with
\* record_types = None by the parser, and a cycle processes such a target
\* with exactly the record types ["A"]; an entry with explicit record types
\* is processed with exactly those types.
C19_RecordTypeDefault ==
    /\ \A c \in DdnsConfigs :
          parse_domains(c.config) = ddns_domains
          => \A j \in 1..Len(c.config) :
                (WellFormed(c.config[j]) /\ "record_types" \notin DOMAIN c.config[j].body
                 /\ \A m \in (j + 1)..Len(c.config) :
                       WellFormed(c.config[m])
                       => c.config[m].body.domain.s # c.config[j].body.domain.s)
                => \E k \in 1..Len(ddns_domains) :
                      /\ ddns_domains[k].domain = c.config[j].body.domain.s
                      /\ ddns_domains[k].record_types = None
    /\ \A n \in 1..Len(calls) :
          /\ calls[n].op = "get_zone_id"
             => calls[n].data = ExpectedTriple(calls[n].idx).domain
          /\ calls[n].op = "get_dns_records"
             => LET t == ExpectedTriple(calls[n].idx)
                IN  /\ calls[n].data.type = t.record_type
                    /\ calls[n].data.name
                         = (IF t.subdomain = <<"@">> THEN t.domain
                            ELSE Join(<<t.subdomain, t.domain>>, "."))
    /\ \A i \in 1..Len(results) :
          Cardinality({n \in 1..Len(calls) :
                          calls[n].op = "get_zone_id" /\ calls[n].idx = i}) = 1
    /\ (pc = "commit" /\ ddns_domains # <<>>) => Len(results) = ExpectedTriple(1).count

\* a pass has ended over a target stored with record_types = None, whose
\* record was looked up with the type A and no other
C19_Witness ==
    /\ pc = "commit"
    /\ Len(ddns_domains) = 2
    /\ ddns_domains[2].domain = ZoneB
    /\ ddns_domains[2].record_types = None
    /\ Len(results) = 3
    /\ \E n \in 1..Len(calls) :
          /\ calls[n].op = "get_dns_records"
          /\ calls[n].idx = 3
          /\ calls[n].data = [name |-> ZoneB, type |-> <<"A">>]

-----------------------------------------------------------------------------
(* The summary of a DDNS cycle *)

\* the `extra` of logger.info("DDNS update completed"), logged when the loops
\* of _execute_cycle have ended
Summary ==
    [updated |-> update_count, errors |-> error_count, domains |-> Len(ddns_domains)]

\* C20 (per-cycle accounting): a DDNS cycle that observes a changed IP invokes
\* the per-record reconcile exactly once for every (zone, subdomain, record
\* type) triple of the parsed targets, classifies each triple as exactly one
\* of created / updated / unchanged / error, and reports four separate counts,
\* one for each class, whose sum equals the total number of triples.
C20_PerCycleAccounting ==
    pc = "commit"
    => LET NumberOf(class) ==
               Cardinality({i \in 1..Len(results) : Outcome(i) = class})
       IN  /\ Len(results) = Len(Triples(ddns_domains))
           /\ \E created, updated, unchanged, errors \in DOMAIN Summary :
                 /\ Cardinality({created, updated, unchanged, errors}) = 4
                 /\ Summary[created] = NumberOf("created")
                 /\ Summary[updated] = NumberOf("updated")
                 /\ Summary[unchanged] = NumberOf("unchanged")
                 /\ Summary[errors] = NumberOf("error")
                 /\ Summary[created] + Summary[updated] + Summary[unchanged]
                    + Summary[errors] = Len(Triples(ddns_domains))

\* what the cycle does report: the reconciles that returned True, whether the
\* record was created, updated or left as it was, and those that returned False
C20_TwoCounts ==
    pc = "commit"
    => LET NumberOf(class) ==
               Cardinality({i \in 1..Len(results) : Outcome(i) = class})
       IN  /\ Len(results) = Len(Triples(ddns_domains))
           /\ Summary.updated
                = NumberOf("created") + NumberOf("updated") + NumberOf("unchanged")
           /\ Summary.errors = NumberOf("error")
           /\ Summary.updated + Summary.errors = Len(Triples(ddns_domains))

-----------------------------------------------------------------------------
(* setup_cloudflare_credentials (lecf/scripts/setup_cloudflare.py) *)

ReRaise_Swallowed == FALSE

\* the bare `raise` that ends the except clause
ReRaise == TRUE

\* setup_cloudflare_credentials(): how it ends, the calls it made, and (as the
\* value) the file /root/.secrets/cloudflare.ini as the call leaves it.
\* world.file is the file before the call; world.mkdir, world.open,
\* world.write and world.chmod tell whether that step succeeds; world.config
\* is what config.get_cloudflare_config does
setup_cloudflare_credentials(world) ==
    LET \* f"{value}"
        Format(v) == IF v.kind = "str" THEN v.s ELSE <<"N", "o", "n", "e">>
        cf_config == world.config
        api_token == cf_config.body.api_token
        email == Get(cf_config.body, "email", Gives("None"))
        \* open(cloudflare_ini, "w"): the file is created with the default
        \* mode if it does not exist, and emptied if it does
        opened == [exists |-> TRUE, lines |-> <<>>,
                   mode |-> IF world.file.exists THEN world.file.mode ELSE 420]
        lines == << <<"d", "n", "s", "_", "c", "l", "o", "u", "d", "f", "l", "a", "r", "e", "_", "a", "p", "i", "_", "t", "o", "k", "e", "n", " ", "=", " ">> \o Format(api_token) >>
                 \o (IF Truthy(email)
                     THEN << <<"d", "n", "s", "_", "c", "l", "o", "u", "d", "f", "l", "a", "r", "e", "_", "e", "m", "a", "i", "l", " ", "=", " ">> \o Format(email) >>
                     ELSE <<>>)
        written == [opened EXCEPT !.lines = lines]
        \* os.chmod(cloudflare_ini, stat.S_IRUSR | stat.S_IWUSR)
        secured == [written EXCEPT !.mode = 384]
        Failed(file, made) ==
            [raised |-> ReRaise, value |-> file, calls |-> Append(made, "logger.error")]
    IN  IF ~world.mkdir THEN Failed(world.file, <<"mkdir">>)
        ELSE IF cf_config.kind = "raise"
        THEN Failed(world.file, <<"mkdir", "get_cloudflare_config">>)
        ELSE IF ~HasKey(cf_config, "api_token")
        THEN Failed(world.file, <<"mkdir", "get_cloudflare_config">>)
        ELSE IF ~world.open
        THEN Failed(world.file, <<"mkdir", "get_cloudflare_config", "open">>)
        ELSE IF ~world.write
        THEN Failed(opened, <<"mkdir", "get_cloudflare_config", "open", "write">>)
        ELSE IF ~world.chmod
        THEN Failed(written, <<"mkdir", "get_cloudflare_config", "open", "write", "chmod">>)
        ELSE [raised |-> FALSE, value |-> secured,
              calls |-> <<"mkdir", "get_cloudflare_config", "open", "write", "chmod",
                          "logger.info">>]

\* the calls examined: the file absent, or present with an older token and a
\* mode; each step succeeding or failing; the configuration lookup raising, or
\* giving a dict with or without a token and an e-mail address
SetupCalls ==
    LET files == { [exists |-> FALSE, lines |-> <<>>, mode |-> 0],
                   [exists |-> TRUE, lines |-> << <<"d", "n", "s", "_", "c", "l", "o", "u", "d", "f", "l", "a", "r", "e", "_", "a", "p", "i", "_", "t", "o", "k", "e", "n", " ", "=", " ", "o", "l", "d">> >>,
                    mode |-> 420],
                   [exists |-> TRUE, lines |-> << <<"d", "n", "s", "_", "c", "l", "o", "u", "d", "f", "l", "a", "r", "e", "_", "a", "p", "i", "_", "t", "o", "k", "e", "n", " ", "=", " ", "o", "l", "d">> >>,
                    mode |-> 384] }
        configs == { Gives("raise"), DictOf([email |-> StrOf(<<"e", "@", "x">>)]) }
                   \cup { DictOf([api_token |-> t, email |-> e]) :
                            t \in {StrOf(<<"t", "o", "k">>), StrOf(<<"k", "2">>)},
                            e \in {Gives("None"), StrOf(<<>>), StrOf(<<"e", "@", "x">>)} }
    IN  { [args |-> [method |-> "setup_cloudflare_credentials"],
           env |-> [file |-> f, mkdir |-> m, config |-> c, open |-> o, write |-> w,
                    chmod |-> ch]] :
            f \in files, m \in BOOLEAN, c \in configs, o \in BOOLEAN, w \in BOOLEAN,
            ch \in BOOLEAN }

SetupNext ==
    CallReturns("setup_cloudflare_credentials", setup_cloudflare_credentials(env))

SetupSpec == CallInit(SetupCalls) /\ [][SetupNext]_vars

\* C21 (credentials file): when setup_cloudflare_credentials returns, the
\* credentials file holds the line `dns_cloudflare_api_token = <token>` (as
\* its first line) and its mode is owner read/write only; if directory
\* creation, token lookup, file writing or chmod fails, the function raises
\* instead of returning.
C21_CredentialsFile ==
    (fpc = "done" /\ args.method = "setup_cloudflare_credentials")
    => /\ ~returned.raised
          => /\ returned.value.exists
             /\ returned.value.lines # <<>>
             /\ returned.value.lines[1]
                  = <<"d", "n", "s", "_", "c", "l", "o", "u", "d", "f", "l", "a", "r", "e", "_", "a", "p", "i", "_", "t", "o", "k", "e", "n", " ", "=", " ">> \o env.config.body.api_token.s
             /\ returned.value.mode = 256 + 128
       /\ (\/ ~env.mkdir
           \/ env.config.kind = "raise"
           \/ "api_token" \notin DOMAIN env.config.body
           \/ ~env.open
           \/ ~env.write
           \/ ~env.chmod)
          => returned.raised

\* an older, world-readable file was replaced by the new token, owner-only;
\* and a run whose chmod failed raised
C21_Witness ==
    /\ fpc = "done"
    /\ args.method = "setup_cloudflare_credentials"
    /\ \/ /\ env.file.exists /\ env.file.mode = 420
          /\ ~returned.raised
          /\ returned.value.lines = << <<"d", "n", "s", "_", "c", "l", "o", "u", "d", "f", "l", "a", "r", "e", "_", "a", "p", "i", "_", "t", "o", "k", "e", "n", " ", "=", " ", "t", "o", "k">> >>
          /\ returned.value.mode = 384
       \/ /\ env.mkdir /\ env.open /\ env.write /\ ~env.chmod
          /\ env.config.kind = "dict"
          /\ returned.raised

-----------------------------------------------------------------------------
(* CertificateManager._execute_cycle: the cycle over the domain groups, the  *)
(* status command and the acquisition it starts, and the CA client's store   *)
(* of certificates they read and change.                                     *)

\* a bound on the number of certificate cycles
MaxCertCycles == 2

list_OneMember(domain_group, hash_order) == <<CHOOSE d \in domain_group : TRUE>>

\* list(domain_group): the members of the set in the order this process
\* iterates them, which follows the hashes of the strings under the
\* process's hash seed and not the order of insertion
list(domain_group, hash_order) == SelectSeq(hash_order, LAMBDA d : d \in domain_group)

\* what `certbot certificates --domain <primary>` can do for a group: it
\* raises, fails, reports no certificate, or prints a domain list (complete,
\* incomplete or none) and an expiry; `later` gives the answers a store can
\* change to between two cycles
StatusRuns(later) ==
    LET both == <<"D", "o", "m", "a", "i", "n", "s", ":", " ", "a", " ", "b", "\n">>
        lists == IF later THEN {both}
                 ELSE {<<>>, both, <<"D", "o", "m", "a", "i", "n", "s", ":", " ", "a", "\n">>}
        expiries == IF later THEN { <<"(", "V", "A", "L", "I", "D", ":", " ", "3", "0", " ", "d", "a", "y", "s", ")", "\n">> }
                    ELSE { <<>>, <<"(", "V", "A", "L", "I", "D", ":", " ", "8", "9", " ", "d", "a", "y", "s", ")", "\n">>, <<"(", "V", "A", "L", "I", "D", ":", " ", "3", "0", " ", "d", "a", "y", "s", ")", "\n">>,
                           <<"(", "V", "A", "L", "I", "D", ":", " ", "3", "1", " ", "d", "a", "y", "s", ")", "\n">>, <<"(", "I", "N", "V", "A", "L", "I", "D", ":", " ", "E", "X", "P", "I", "R", "E", "D", ")", "\n">> }
    IN  { [raises |-> FALSE, returncode |-> 0, stdout |-> <<"N", "o", " ", "c", "e", "r", "t", "i", "f", "i", "c", "a", "t", "e", "s", " ", "f", "o", "u", "n", "d", ".", "\n">>] }
        \cup (IF later THEN {}
              ELSE { [raises |-> TRUE, returncode |-> 0, stdout |-> <<>>],
                     [raises |-> FALSE, returncode |-> 1, stdout |-> <<>>] })
        \cup { [raises |-> FALSE, returncode |-> 0, stdout |-> l \o e] :
                 l \in lists, e \in expiries }

\* CertificateManager.__init__ has run in a process with some hash seed; the
\* CA client's store answers the status command for each group
CycleInit ==
    /\ domains_str \in { <<"a", ",", "b">>, <<"b", ",", " ", "a">>, <<"a", ";", "b">> }
    /\ cert_domains = ParseCertDomains(domains_str)
    /\ cert_pc = "ready"
    /\ cert_cycle = 0
    /\ cert_idx = 0
    /\ \E order \in { <<FqdnA, FqdnB>>, <<FqdnB, FqdnA>> } :
          args = [hash_order |-> order,
                  renewal_threshold |-> default_renewal_threshold,
                  staging |-> FALSE, email |-> <<"e", "@", "x">>,
                  now |-> [year |-> 2026, month |-> 12, day |-> 7, midnight |-> TRUE]]
    /\ env \in [DOMAIN cert_domains -> StatusRuns(FALSE)]
    /\ returned = None
    /\ trace = <<>>
    /\ fpc = "absent"
    /\ DdnsAbsent

\* BaseManager.run enters _execute_cycle; of the subprocesses started so far
\* those of the cycle just ended are remembered
CertStartCycle ==
    /\ cert_pc = "ready"
    /\ cert_cycle < MaxCertCycles
    /\ cert_cycle' = cert_cycle + 1
    /\ cert_idx' = 1
    /\ cert_pc' = "loop"
    /\ trace' = SelectSeq(trace, LAMBDA e : e.cycle = cert_cycle)
    /\ UNCHANGED <<domains_str, cert_domains, args, env, returned, fpc, ddnsVars>>

\* the next group: domain_list = list(domain_group) and
\* self.check_certificate_expiry(domain_list); a False moves on to the next group
CertCheck ==
    /\ cert_pc = "loop"
    /\ cert_idx <= Len(cert_domains)
    /\ LET domain_list == list(cert_domains[cert_idx], args.hash_order)
           result == env[cert_idx]
           out == check_certificate_expiry(domain_list, result, args.renewal_threshold,
                                           args.now)
       IN  /\ returned' = [raised |-> out.raised, value |-> out.value]
           /\ trace' = trace \o [k \in DOMAIN out.calls |->
                                    [cycle |-> cert_cycle, group |-> cert_idx,
                                     cmd |-> out.calls[k], result |-> result,
                                     value |-> out.value]]
           /\ IF out.value
              THEN /\ cert_pc' = "checked"
                   /\ UNCHANGED cert_idx
              ELSE /\ cert_pc' = "loop"
                   /\ cert_idx' = cert_idx + 1
    /\ UNCHANGED <<domains_str, cert_domains, cert_cycle, args, env, fpc, ddnsVars>>

\* self.obtain_certificate(domain_list), its value unused; an acquisition that
\* succeeds leaves a certificate for the whole group in the store
CertObtain ==
    /\ cert_pc = "checked"
    /\ \E result \in { [raises |-> FALSE, returncode |-> 0],
                       [raises |-> FALSE, returncode |-> 1] } :
          LET domain_list == list(cert_domains[cert_idx], args.hash_order)
              out == obtain_certificate([domains |-> domain_list, staging |-> args.staging,
                                         email |-> args.email], result)
          IN  /\ trace' = trace \o [k \in DOMAIN out.calls |->
                                       [cycle |-> cert_cycle, group |-> cert_idx,
                                        cmd |-> out.calls[k], result |-> result,
                                        value |-> out.value = "True"]]
              /\ env' = IF out.value = "True"
                        THEN [env EXCEPT ![cert_idx] =
                                [raises |-> FALSE, returncode |-> 0,
                                 stdout |-> <<"D", "o", "m", "a", "i", "n", "s", ":", " ", "a", " ", "b", "\n", "(", "V", "A", "L", "I", "D", ":", " ", "8", "9", " ", "d", "a", "y", "s", ")", "\n">>]]
                        ELSE env
    /\ cert_idx' = cert_idx + 1
    /\ cert_pc' = "loop"
    /\ UNCHANGED <<domains_str, cert_domains, cert_cycle, args, returned, fpc, ddnsVars>>

\* the for loop is exhausted: the cycle ends
CertEndCycle ==
    /\ cert_pc = "loop"
    /\ cert_idx > Len(cert_domains)
    /\ cert_pc' = "ready"
    /\ cert_idx' = 0
    /\ UNCHANGED <<domains_str, cert_domains, cert_cycle, args, env, returned, trace, fpc,
                   ddnsVars>>

\* between two cycles time passes and the store changes: a certificate nears
\* its expiry or is deleted
StatusChanges ==
    /\ cert_pc = "ready"
    /\ cert_cycle \in 1..(MaxCertCycles - 1)
    /\ \E g \in DOMAIN cert_domains : \E r \in StatusRuns(TRUE) :
          /\ env[g] # r
          /\ env' = [env EXCEPT ![g] = r]
    /\ UNCHANGED <<certVars, args, returned, trace, fpc, ddnsVars>>

CycleNext ==
    \/ CertStartCycle
    \/ CertCheck
    \/ CertObtain
    \/ CertEndCycle
    \/ StatusChanges

CycleSpec == CycleInit /\ [][CycleNext]_vars

\* ---- what the trace and the status output say, read without the code ----

IsStatus(e) == e.cmd[2] = <<"c", "e", "r", "t", "i", "f", "i", "c", "a", "t", "e", "s">>
IsAcquisition(e) == e.cmd[2] = <<"c", "e", "r", "t", "o", "n", "l", "y">>

\* the acquisitions started for group g in cycle c
AcquisitionsOf(c, g) ==
    SelectSeq(trace, LAMBDA e : IsAcquisition(e) /\ e.cycle = c /\ e.group = g)

\* the loop of cycle c has gone past group g
Finished(c, g) ==
    \/ c < cert_cycle
    \/ c = cert_cycle /\ (cert_pc = "ready" \/ (cert_pc = "loop" /\ g < cert_idx))

\* the names on the line that follows the first "Domains:", and the number
\* of one or two digits before " days)" that follows the first "VALID: " (-1
\* when there is none)
Reported(stdout) ==
    LET Line(from) ==
            LET nl == {i \in from..Len(stdout) : stdout[i] = "\n"}
            IN  SubSeq(stdout, from, IF nl = {} THEN Len(stdout) ELSE SetMin(nl) - 1)
        at == Find(stdout, <<"D", "o", "m", "a", "i", "n", "s", ":">>)
        line == IF at = 0 THEN <<>> ELSE Line(at + 8)
        Word(i, j) ==
            /\ \A k \in i..j : line[k] # " "
            /\ (i = 1 \/ line[i - 1] = " ")
            /\ (j = Len(line) \/ line[j + 1] = " ")
        marker == Find(stdout, <<"V", "A", "L", "I", "D", ":", " ">>)
        text == IF marker = 0 THEN <<>> ELSE Line(marker + 7)
        Digit == DOMAIN DigitValue
        days ==
            IF Len(text) = 7 /\ text[1] \in Digit /\ Tail(text) = <<" ", "d", "a", "y", "s", ")">>
            THEN DigitValue[text[1]]
            ELSE IF Len(text) = 8 /\ text[1] \in Digit /\ text[2] \in Digit
                    /\ Tail(Tail(text)) = <<" ", "d", "a", "y", "s", ")">>
            THEN 10 * DigitValue[text[1]] + DigitValue[text[2]]
            ELSE 0 - 1
    IN  [certificate |-> Find(stdout, <<"N", "o", " ", "c", "e", "r", "t", "i", "f", "i", "c", "a", "t", "e", "s", " ", "f", "o", "u", "n", "d", ".">>) = 0,
         domains |-> {SubSeq(line, w[1], w[2]) :
                        w \in {p \in (1..Len(line)) \X (1..Len(line)) :
                                  p[1] <= p[2] /\ Word(p[1], p[2])}},
         days |-> days]

\* C22 (renewal decision): in a certificate cycle an acquisition is started
\* for a group if and only if check_certificate_expiry returned True for it;
\* the check returns False only when the status command exited 0, a
\* certificate is reported, every domain of the group is on the certificate's
\* domain list and the days to expiry are strictly more than the renewal
\* threshold; days equal to the threshold give True.
C22_RenewalDecision ==
    \A i \in DOMAIN trace :
        LET e == trace[i]
            said == Reported(e.result.stdout)
        IN  /\ (IsStatus(e) /\ Finished(e.cycle, e.group))
               => (AcquisitionsOf(e.cycle, e.group) # <<>> <=> e.value)
            /\ IsAcquisition(e)
               => \E j \in 1..(i - 1) :
                     /\ IsStatus(trace[j])
                     /\ trace[j].cycle = e.cycle /\ trace[j].group = e.group
                     /\ trace[j].value
            /\ (IsStatus(e) /\ ~e.value)
               => /\ ~e.result.raises
                  /\ e.result.returncode = 0
                  /\ said.certificate
                  /\ cert_domains[e.group] \subseteq said.domains
                  /\ said.days > args.renewal_threshold
            /\ (IsStatus(e) /\ said.days = args.renewal_threshold)
               => e.value

\* in one cycle over two groups, a certificate with 31 days left was left
\* alone and one with 30 days left, the threshold, was acquired again
C22_Witness ==
    /\ cert_pc = "ready"
    /\ cert_cycle = 1
    /\ Len(cert_domains) = 2
    /\ \E i, j \in DOMAIN trace :
          /\ IsStatus(trace[i]) /\ IsStatus(trace[j])
          /\ Reported(trace[i].result.stdout).days = 31
          /\ ~trace[i].value
          /\ AcquisitionsOf(1, trace[i].group) = <<>>
          /\ Reported(trace[j].result.stdout).days = 30
          /\ trace[j].result.returncode = 0
          /\ cert_domains[trace[j].group] \subseteq Reported(trace[j].result.stdout).domains
          /\ trace[j].value
          /\ Len(AcquisitionsOf(1, trace[j].group)) = 1

\* the domains an acquisition command asks for: what follows each -d
RequestedDomains(cmd) == {cmd[k + 1] : k \in {j \in 1..(Len(cmd) - 1) : cmd[j] = <<"-", "d">>}}

\* C23 (domain coverage precedes expiry): when a domain of the group is not on
\* the certificate's domain list, or the status output has no domain list,
\* check_certificate_expiry returns True however many days remain, and the
\* acquisition that follows names every domain of the group, each once.
C23_CoverageBeforeExpiry ==
    \A i \in DOMAIN trace :
        LET e == trace[i]
            group == cert_domains[e.group]
        IN  (IsStatus(e) /\ ~(group \subseteq Reported(e.result.stdout).domains))
            => /\ e.value
               /\ Finished(e.cycle, e.group)
                  => /\ Len(AcquisitionsOf(e.cycle, e.group)) = 1
                     /\ LET cmd == AcquisitionsOf(e.cycle, e.group)[1].cmd
                        IN  /\ RequestedDomains(cmd) = group
                            /\ Cardinality({k \in DOMAIN cmd : cmd[k] = <<"-", "d">>})
                                 = Cardinality(group)

\* the certificate found has 89 days left but names only a: the group a, b
\* was acquired as a whole
C23_Witness ==
    /\ cert_pc = "ready"
    /\ cert_domains = << {FqdnA, FqdnB} >>
    /\ \E i \in DOMAIN trace :
          /\ IsStatus(trace[i])
          /\ trace[i].result.stdout = <<"D", "o", "m", "a", "i", "n", "s", ":", " ", "a", "\n", "(", "V", "A", "L", "I", "D", ":", " ", "8", "9", " ", "d", "a", "y", "s", ")", "\n">>
          /\ trace[i].value
          /\ Len(AcquisitionsOf(trace[i].cycle, 1)) = 1
          /\ RequestedDomains(AcquisitionsOf(trace[i].cycle, 1)[1].cmd) = {FqdnA, FqdnB}

\* what a status output reports: no certificate, one that lacks a domain of
\* the group, or one with no more days left than the threshold
NeedsCertificate(e) ==
    LET said == Reported(e.result.stdout)
    IN  /\ ~e.result.raises
        /\ e.result.returncode = 0
        /\ \/ ~said.certificate
           \/ ~(cert_domains[e.group] \subseteq said.domains)
           \/ said.days \in 0..args.renewal_threshold

\* C24 (coarse-grained retry): in one certificate cycle at most one
\* acquisition subprocess is started for a group; and when the acquisition of
\* one cycle failed and the status command of the next cycle still reports the
\* group as absent, incomplete or expiring, that cycle starts an acquisition
\* for the group again.
C24_CoarseRetry ==
    /\ \A c \in 1..cert_cycle : \A g \in DOMAIN cert_domains :
          Len(AcquisitionsOf(c, g)) <= 1
    /\ \A i, j \in DOMAIN trace :
          (/\ IsAcquisition(trace[i]) /\ ~trace[i].value
           /\ IsStatus(trace[j])
           /\ trace[j].group = trace[i].group
           /\ trace[j].cycle = trace[i].cycle + 1
           /\ NeedsCertificate(trace[j])
           /\ Finished(trace[j].cycle, trace[j].group))
          => Len(AcquisitionsOf(trace[j].cycle, trace[j].group)) = 1

\* the acquisition of the first cycle failed, the second cycle found the
\* certificate still absent and started one acquisition again
C24_Witness ==
    /\ cert_pc = "ready"
    /\ cert_cycle = 2
    /\ env[1].stdout = <<"N", "o", " ", "c", "e", "r", "t", "i", "f", "i", "c", "a", "t", "e", "s", " ", "f", "o", "u", "n", "d", ".", "\n">>
    /\ Len(AcquisitionsOf(1, 1)) = 1
    /\ ~AcquisitionsOf(1, 1)[1].value
    /\ Len(AcquisitionsOf(2, 1)) = 1

\* the first FQDN written in the configuration of group g
FirstWritten(g) == Strip(Split(Split(domains_str, ";")[g], ",")[1])

\* C25 (primary domain): the domain passed to the status command as the
\* group's primary is the first FQDN written in the group's configuration.
C25_PrimaryDomain ==
    \A i \in DOMAIN trace :
        IsStatus(trace[i]) => trace[i].cmd[4] = FirstWritten(trace[i].group)

\* what does hold: within one process the primary of a group is the same
\* member of the group in every cycle
C25_SamePrimaryInOneProcess ==
    \A i, j \in DOMAIN trace :
        (IsStatus(trace[i]) /\ IsStatus(trace[j]) /\ trace[i].group = trace[j].group)
        => /\ trace[i].cmd[4] = trace[j].cmd[4]
           /\ trace[i].cmd[4] \in cert_domains[trace[i].group]

\* ---- the wildcard options of the acquisition command ----

\* the command has --server <ACME v2 directory> and the 60-second
\* --dns-cloudflare-propagation-seconds
HasWildcardOptions(cmd) ==
    /\ \E k \in 1..(Len(cmd) - 1) :
          /\ cmd[k] = <<"-", "-", "s", "e", "r", "v", "e", "r">>
          /\ cmd[k + 1] = <<"h", "t", "t", "p", "s", ":", "/", "/", "a", "c", "m", "e", "-", "v", "0", "2", ".", "a", "p", "i", ".", "l", "e", "t", "s", "e", "n", "c", "r", "y", "p", "t", ".", "o", "r", "g", "/", "d", "i", "r", "e", "c", "t", "o", "r", "y">>
    /\ \E k \in 1..(Len(cmd) - 1) :
          /\ cmd[k] = <<"-", "-", "d", "n", "s", "-", "c", "l", "o", "u", "d", "f", "l", "a", "r", "e", "-", "p", "r", "o", "p", "a", "g", "a", "t", "i", "o", "n", "-", "s", "e", "c", "o", "n", "d", "s">>
          /\ cmd[k + 1] = <<"6", "0">>

HasNoWildcardOption(cmd) ==
    \A k \in DOMAIN cmd :
        cmd[k] \notin { <<"-", "-", "s", "e", "r", "v", "e", "r">>, <<"-", "-", "d", "n", "s", "-", "c", "l", "o", "u", "d", "f", "l", "a", "r", "e", "-", "p", "r", "o", "p", "a", "g", "a", "t", "i", "o", "n", "-", "s", "e", "c", "o", "n", "d", "s">> }

\* C26 (wildcard tagging): the acquisition command has the wildcard options
\* exactly when at least one domain of the group starts with `*`; a group
\* with no such domain gets neither option.
C26_WildcardTagging ==
    (fpc = "done" /\ args.method = "obtain_certificate" /\ trace # <<>>)
    => IF \E i \in DOMAIN args.domains : Head(args.domains[i]) = "*"
       THEN HasWildcardOptions(trace[1])
       ELSE HasNoWildcardOption(trace[1])

\* what does hold: the options are added exactly when a domain of the group
\* holds a `*` anywhere
C26_TaggedWhenStarAnywhere ==
    (fpc = "done" /\ args.method = "obtain_certificate" /\ trace # <<>>)
    => IF \E i \in DOMAIN args.domains : "*" \in Range(args.domains[i])
       THEN HasWildcardOptions(trace[1])
       ELSE HasNoWildcardOption(trace[1])

\* ---- zone resolution stated on the text of the domain ----

\* the listing get_zone_id works on: the answer of the first listing method
\* of the library that gives something
ListingUsed(cf) ==
    LET answers ==
            (IF cf.has_zones_list THEN <<cf.zones_list>> ELSE <<>>)
            \o <<cf.zones_call>>
            \o (IF cf.has_list_zones THEN <<cf.list_zones>> ELSE <<>>)
        given == SelectSeq(answers, LAMBDA r : r.kind = "object"
                                               \/ (r.kind = "list" /\ r.items # <<>>))
    IN  IF given = <<>> THEN Gives("None") ELSE given[1]

\* the text after the last dot but one, the whole text when it has one dot
LastTwoLabels(domain) ==
    LET dots == {i \in DOMAIN domain : domain[i] = "."}
    IN  IF Cardinality(dots) < 2 THEN domain
        ELSE SubSeq(domain, SetMax(dots \ {SetMax(dots)}) + 1, Len(domain))

\* C27 (zone resolution): for a domain of at least two labels and a listing
\* of zones, get_zone_id returns the id and the name of the first listed zone
\* whose name is exactly the last two labels of the domain joined by a dot,
\* and (None, None) when no listed zone has that name (or the first that has
\* it carries no id).
C27_ZoneResolution ==
    (/\ fpc = "done"
     /\ args.method = "get_zone_id"
     /\ \E i \in DOMAIN args.domain : args.domain[i] = "."
     /\ ListingUsed(env).kind = "list")
    => LET zones == ListingUsed(env).items
           named == {i \in DOMAIN zones : zones[i].name = LastTwoLabels(args.domain)}
       IN  /\ ~returned.raised
           /\ returned.value =
                IF named = {} THEN <<None, None>>
                ELSE IF "id" \notin DOMAIN zones[SetMin(named)] THEN <<None, None>>
                ELSE <<zones[SetMin(named)].id, zones[SetMin(named)].name>>

\* two listed zones are named a.c: for w.a.c the first one is returned; and
\* for x.y, which no zone is named after, nothing is
C27_Witness ==
    /\ fpc = "done"
    /\ args.method = "get_zone_id"
    /\ ListingUsed(env).kind = "list"
    /\ \/ /\ args.domain = <<"w", ".", "a", ".", "c">>
          /\ ListingUsed(env).items
               = << [id |-> Zid2, name |-> ZoneA], [id |-> Zid1, name |-> ZoneA] >>
          /\ returned.value = <<Zid2, ZoneA>>
       \/ /\ args.domain = <<"x", ".", "y">>
          /\ returned.value = <<None, None>>

\* ---- the record name of a triple, stated on its target ----

\* the calls made on the provider for the i-th triple of the pass
CallsFor(i) == SelectSeq(calls, LAMBDA c : c.idx = i)

\* C28 (canonical record name and lookup): for every triple the records are
\* looked up with the filter {name, type} and nothing else, the name being
\* the target's zone name when the subdomain is `@` and <subdomain>.<zone>
\* otherwise; every create or update issued for the triple carries that same
\* name and type.
C28_CanonicalName ==
    \A n \in 1..Len(calls) :
        LET t == ExpectedTriple(calls[n].idx)
            name == IF t.subdomain = <<"@">> THEN t.domain
                    ELSE t.subdomain \o <<".">> \o t.domain
        IN  /\ calls[n].op = "get_dns_records"
               => calls[n].data = [name |-> name, type |-> t.record_type]
            /\ calls[n].op \in {"create_dns_record", "update_dns_record"}
               => /\ calls[n].data.name = name
                  /\ calls[n].data.type = t.record_type
                  /\ \E m \in 1..(n - 1) :
                        /\ calls[m].op = "get_dns_records"
                        /\ calls[m].idx = calls[n].idx
                        /\ calls[m].data = [name |-> name, type |-> t.record_type]

\* the target w.b.c, whose zone is b.c: its apex record was looked up and
\* created under the name w.b.c in the zone b.c
C28_Witness ==
    /\ Len(ddns_domains) = 2
    /\ ddns_domains[2].domain = <<"w", ".", "b", ".", "c">>
    /\ \E m, n \in 1..Len(calls) :
          /\ calls[m].op = "get_dns_records"
          /\ calls[m].idx = 3
          /\ calls[m].data = [name |-> <<"w", ".", "b", ".", "c">>, type |-> <<"A">>]
          /\ calls[n].op = "create_dns_record"
          /\ calls[n].idx = 3
          /\ calls[n].data.name = <<"w", ".", "b", ".", "c">>
          /\ calls[n].zone_id = Zid2

-----------------------------------------------------------------------------
(* DdnsManager.get_public_ip, one call on its own: env[k] is what            *)
(* requests.get does for the k-th of ip_check_services                       *)

\* the value returned and the services contacted, in order
get_public_ip(responses) ==
    LET RECURSIVE probe(_)
        probe(k) ==
            IF k > Len(responses)
            THEN [raised |-> FALSE, value |-> None, calls |-> [j \in 1..(k - 1) |-> j]]
            ELSE IF ~responses[k].raises /\ responses[k].status_code = 200
            THEN [raised |-> FALSE, value |-> Strip(responses[k].text),
                  calls |-> [j \in 1..k |-> j]]
            ELSE probe(k + 1)
    IN  probe(1)

PublicIpNext == CallReturns("get_public_ip", get_public_ip(env))

\* every way the services of ip_check_services can answer one call
PublicIpSpec ==
    CallInit({ [args |-> [method |-> "get_public_ip"], env |-> r] :
                 r \in [1..NumServices -> ProbeOutcomes] })
    /\ [][PublicIpNext]_vars

\* C29 (probe order): get_public_ip contacts the services in their order,
\* returns the trimmed body of the first that answers with status 200 and
\* contacts none after it; a service that raises or answers with another
\* status is passed over; None is returned only after every service was tried.
C29_ProbeOrder ==
    (fpc = "done" /\ args.method = "get_public_ip")
    => LET answered == {k \in DOMAIN env : ~env[k].raises /\ env[k].status_code = 200}
           last == IF answered = {} THEN Len(env) ELSE SetMin(answered)
       IN  /\ ~returned.raised
           /\ trace = [k \in 1..last |-> k]
           /\ returned.value = (IF answered = {} THEN None
                                ELSE Trimmed(env[SetMin(answered)].text))
           /\ returned.value = None => Len(trace) = NumServices

\* the first service raised, the second answered 500, the third answered 200
\* with "2\n": "2" was returned and the fourth service was not contacted
C29_Witness ==
    /\ fpc = "done"
    /\ args.method = "get_public_ip"
    /\ env[1].raises
    /\ ~env[2].raises /\ env[2].status_code = 500
    /\ ~env[3].raises /\ env[3].status_code = 200 /\ env[3].text = <<"2", "\n">>
    /\ ~env[4].raises /\ env[4].status_code = 200
    /\ returned.value = <<"2">>
    /\ trace = <<1, 2, 3>>

-----------------------------------------------------------------------------
(* The DDNS cycle with an operator who edits the provider's records while    *)
(* update_dns_record is between its lookup and its update                    *)

\* someone else changes the proxied flag of the record that the lookup found,
\* after get_dns_records has returned and before update_dns_record is sent
OperatorSetsProxied ==
    /\ pc = "write"
    /\ dns_records # <<>>
    /\ records[dns_records[1].id].proxied = dns_records[1].proxied
    /\ records' = [records EXCEPT ![dns_records[1].id].proxied = ~@]
    /\ UNCHANGED <<ddns_domains, current_ip, last_check_time, pc, cycle, svc, ip, idx,
                   update_count, error_count, dns_records, zone_id, results, calls,
                   raised, branch, hist>>
    /\ UNCHANGED <<certVars, callVars>>

RaceNext ==
    \/ Next
    \/ OperatorSetsProxied

RaceSpec == Init /\ [][RaceNext]_vars

\* C30 (proxied flag under a concurrent edit): when the record's proxied flag
\* was changed after the lookup, the update that follows does not revert it:
\* the flag after a successful update is the flag the record had immediately
\* before the update.
C30_ConcurrentProxiedKept ==
    [][(/\ pc = "write"
        /\ dns_records # <<>>
        /\ records[dns_records[1].id].proxied # dns_records[1].proxied
        /\ Len(calls') = Len(calls) + 1
        /\ calls'[Len(calls')].op = "update_dns_record"
        /\ calls'[Len(calls')].ret)
       => records'[dns_records[1].id].proxied = records[dns_records[1].id].proxied]_vars

\* what does hold: a successful update leaves the record with the flag that
\* the lookup saw, whatever the flag was immediately before the update
C30_UpdateWritesFlagOfLookup ==
    [][(/\ pc = "write"
        /\ dns_records # <<>>
        /\ Len(calls') = Len(calls) + 1
        /\ calls'[Len(calls')].op = "update_dns_record"
        /\ calls'[Len(calls')].ret)
       => records'[dns_records[1].id].proxied = dns_records[1].proxied]_vars

\* ---- the initial cycles and the periodic jobs ----

\* the position in the trace of the only call of `op` made for manager `key`
PositionOf(op, key) ==
    CHOOSE i \in 1..Len(trace) : trace[i].op = op /\ trace[i].key = key

\* every initialised manager had one initial cycle and then got its job
InitialCycleThenJob ==
    \A key \in DOMAIN env.init :
        ~env.init[key].raises
        => /\ TimesCalled("run", key) = 1
           /\ TimesCalled("schedule.every.do", key) = 1
           /\ PositionOf("run", key) < PositionOf("schedule.every.do", key)

-----------------------------------------------------------------------------
(* main and initialize_cloudflare_credentials (lecf/cli.py) *)

\* main(), up to the scheduler loop: how it ends and, in order, the calls it
\* made. world.debug is args.debug, world.load what config.load_yaml_config
\* does, world.setup what setup_cloudflare_credentials does; world.init,
\* world.run and world.unit are read by schedule_managers
main(world) ==
    LET Event(op, detail) == [op |-> op, key |-> "", detail |-> detail]
        \* load_configuration: every error of the loading is logged
        loading == << Event("load_configuration", "") >>
                   \o (IF world.load.raises /\ Caught(world.load.error_type)
                       THEN << Event("logger.error", "Error loading configuration") >>
                       ELSE <<>>)
        started == << Event("parse_args", ""), Event("setup_logging", "main") >> \o loading
        \* initialize_cloudflare_credentials
        credentials == Append(started, Event("setup_cloudflare_credentials", ""))
        scheduling == schedule_managers(world)
    IN  IF world.load.raises /\ ~Caught(world.load.error_type)
        THEN [raised |-> TRUE, value |-> world.load.error_type, calls |-> started]
        ELSE IF world.setup.raises /\ Caught(world.setup.error_type)
        THEN [raised |-> TRUE, value |-> "SystemExit(1)",
              calls |-> credentials
                        \o << Event("logger.error",
                                    "Failed to initialize Cloudflare credentials"),
                              Event("sys.exit", "1") >>]
        ELSE IF world.setup.raises
        THEN [raised |-> TRUE, value |-> world.setup.error_type, calls |-> credentials]
        ELSE [raised |-> scheduling.raised,
              value |-> IF scheduling.raised THEN scheduling.value ELSE "scheduler loop",
              calls |-> Append(credentials, Event("schedule_managers", "run_once=False"))
                        \o scheduling.calls]

MainNext == CallReturns("main", main(env))

\* the calls examined: the configuration loads or its loading fails, the
\* credentials setup returns, fails with an error or is interrupted, and each
\* manager's initialisation and initial cycle returns or fails
MainSpec ==
    /\ CallInit(
         LET ok == [raises |-> FALSE, error_type |-> ""]
             Fails(error_type) == [raises |-> TRUE, error_type |-> error_type]
             keys == {AVAILABLE_MANAGERS[i] : i \in 1..Len(AVAILABLE_MANAGERS)}
         IN  { [args |-> [method |-> "main", debug |-> d],
                env |-> [load |-> l, setup |-> s, init |-> i, run |-> r,
                         unit |-> [key \in keys |-> "hours"]]] :
                 d \in BOOLEAN,
                 l \in {ok, Fails("ValueError")},
                 s \in {ok, Fails("ValueError"), Fails("Exception"),
                        Fails("KeyboardInterrupt")},
                 i \in [keys -> {ok, Fails("ValueError")}],
                 r \in [keys -> {ok, Fails("RuntimeError")}] })
    /\ [][MainNext]_vars

\* the position of the only call of `op` in the trace, 0 if there is none
Position(op) ==
    LET at == {i \in 1..Len(trace) : trace[i].op = op}
    IN  IF at = {} THEN 0 ELSE SetMin(at)

-----------------------------------------------------------------------------
(* schedule_managers(run_once=False): the initial cycles and the scheduler
   loop (lecf/cli.py, main.py). One thread runs the function; fpc is where
   that thread stands and env holds what it works on: the jobs still to run in
   this pass (queue), the job it is in (running), every cycle that has started
   and not ended (in_progress), the seconds until each job is due (remaining)
   and the length of the coming sleep (nap). *)

\* the longest interval examined, in seconds
MaxInterval == 3

job_func_call_Detached == "next"

\* manager.run() is a call: the thread is in the cycle until it ends
job_func_call == "cycle"

\* the function after its managers are initialised (lecf/cli.py line 79
\* onwards when legacy is FALSE, main.py line 66 onwards when it is TRUE)
SchedulerInit(legacy) ==
    /\ \E managers \in {<<"certificate", "ddns">>, <<"certificate">>, <<"ddns">>} :
       \E interval \in [Range(managers) -> 1..MaxInterval] :
          args = [method |-> "schedule_managers", run_once |-> FALSE,
                  legacy |-> legacy, managers |-> managers, interval |-> interval]
    /\ env = [phase |-> "set-up", queue |-> args.managers, running |-> "",
              in_progress |-> {}, remaining |-> [key \in Range(args.managers) |-> 0],
              nap |-> 0]
    /\ returned = None
    /\ trace = <<>>
    /\ fpc = "next"
    /\ CertAbsent
    /\ DdnsAbsent

\* manager.run is entered: by the `for` loop of the set-up for the initial
\* cycle, by schedule.run_pending for a job that is due
JobStarts ==
    /\ fpc = "next"
    /\ env.queue # <<>>
    /\ env' = [env EXCEPT !.queue = Tail(@), !.running = Head(env.queue),
                          !.in_progress = @ \cup {Head(env.queue)}]
    /\ fpc' = job_func_call
    /\ UNCHANGED <<args, returned, trace, certVars, ddnsVars>>

\* manager.run ends: it returns, or an exception leaves it ("returns", or the
\* class of the exception)
JobEnds(outcome) ==
    LET key == env.running
        ended == [env EXCEPT !.running = "", !.in_progress = @ \ {key}]
        \* schedule.every(interval).<unit>.do(manager.run), and the next run
        \* time that schedule gives a job that returned
        scheduled == [ended EXCEPT !.remaining[key] = args.interval[key]]
        Raise(value) ==
            /\ env' = [ended EXCEPT !.queue = <<>>]
            /\ returned' = [raised |-> TRUE, value |-> value]
            /\ fpc' = "exited"
    IN  /\ fpc = "cycle"
        /\ IF env.phase = "set-up"
           THEN IF outcome = "returns" \/ Caught(outcome)
                THEN /\ env' = IF scheduled.queue = <<>>
                               THEN [scheduled EXCEPT !.phase = "loop"]
                               ELSE scheduled
                     /\ fpc' = IF scheduled.queue = <<>> THEN "run_pending" ELSE "next"
                     /\ UNCHANGED returned
                ELSE Raise(outcome)
           ELSE IF outcome = "returns"
                THEN /\ env' = [scheduled EXCEPT !.nap = 1]
                     /\ fpc' = IF scheduled.queue = <<>> THEN "sleep" ELSE "next"
                     /\ UNCHANGED returned
                ELSE IF outcome = "KeyboardInterrupt"
                THEN Raise("SystemExit(0)")
                ELSE IF Caught(outcome) /\ ~args.legacy
                THEN \* except Exception: logger.error, time.sleep(5)
                     /\ env' = [ended EXCEPT !.queue = <<>>, !.nap = 5]
                     /\ fpc' = "sleep"
                     /\ UNCHANGED returned
                ELSE Raise(outcome)
        /\ UNCHANGED <<args, trace, certVars, ddnsVars>>

\* schedule.run_pending(): the jobs that are due, to be run one after another
RunPending ==
    /\ fpc = "run_pending"
    /\ LET due == {key \in Range(args.managers) : env.remaining[key] = 0}
       IN  \E order \in [1..Cardinality(due) -> due] :
              /\ Range(order) = due
              /\ env' = [env EXCEPT !.queue = order, !.nap = 1]
              /\ fpc' = IF due = {} THEN "sleep" ELSE "next"
    /\ UNCHANGED <<args, returned, trace, certVars, ddnsVars>>

\* time.sleep(1), or time.sleep(5) after an error; interrupted or not
Sleeps(interrupted) ==
    /\ fpc = "sleep"
    /\ IF interrupted
       THEN /\ returned' = [raised |-> TRUE, value |-> "SystemExit(0)"]
            /\ fpc' = "exited"
            /\ UNCHANGED env
       ELSE /\ env' = [env EXCEPT !.remaining =
                          [key \in DOMAIN @ |-> IF @[key] > env.nap THEN @[key] - env.nap
                                                ELSE 0]]
            /\ fpc' = "run_pending"
            /\ UNCHANGED returned
    /\ UNCHANGED <<args, trace, certVars, ddnsVars>>

SchedulerNext ==
    \/ JobStarts
    \/ \E outcome \in {"returns", "RuntimeError", "KeyboardInterrupt"} : JobEnds(outcome)
    \/ RunPending
    \/ \E interrupted \in BOOLEAN : Sleeps(interrupted)

SchedulerSpec == SchedulerInit(FALSE) /\ [][SchedulerNext]_vars

\* C31 (strict sequencing): at no time are two cycles in progress at once; a
\* cycle that has started finishes before any other cycle starts.
C31_OneCycleAtATime ==
    args.method = "schedule_managers"
    => /\ Cardinality(env.in_progress) <= 1
       /\ env.in_progress # {} => env.in_progress = {env.running} /\ fpc = "cycle"

\* both jobs are due in the same pass of run_pending: the DDNS cycle is in
\* progress, the certificate cycle of that pass has ended
C31_Witness ==
    /\ args.method = "schedule_managers"
    /\ env.phase = "loop"
    /\ Len(args.managers) = 2
    /\ env.in_progress = {"ddns"}
    /\ env.remaining["certificate"] = args.interval["certificate"]
    /\ env.remaining["ddns"] = 0

\* the thread is never stopped for ever between two steps, and a cycle does
\* not raise every time it is run
SchedulerFairness ==
    /\ WF_vars(JobStarts)
    /\ WF_vars(RunPending)
    /\ WF_vars(Sleeps(FALSE))
    /\ SF_vars(JobEnds("returns"))

SchedulerLiveSpec == SchedulerSpec /\ SchedulerFairness

\* schedule_managers of main.py
LegacySchedulerLiveSpec ==
    SchedulerInit(TRUE) /\ [][SchedulerNext]_vars /\ SchedulerFairness

\* C32 (scheduler liveness): once the scheduler loop has started, an exception
\* raised while running pending jobs (anything other than a keyboard
\* interrupt) does not terminate the loop: unless a keyboard interrupt ends the
\* process, every scheduled manager is invoked again and again.
C32_SchedulerLiveness ==
    \A key \in {"certificate", "ddns"} :
        []((env.phase = "loop" /\ key \in Range(args.managers))
           => <>(\/ env.running = key
                 \/ returned = [raised |-> TRUE, value |-> "SystemExit(0)"]))

-----------------------------------------------------------------------------
(* DdnsManager._parse_domains on any value of `ddns.domains` *)

\* _parse_domains(domains_config) as a call that may raise: domains_config is
\* whatever config.APP_CONFIG["ddns"]["domains"] holds
DdnsManager_parse_domains(domains_config) ==
    LET \* `for domain_entry in domains_config`: the items of a list, the
        \* characters of a string
        entries ==
            IF domains_config.kind = "list" THEN domains_config.items
            ELSE [i \in 1..Len(domains_config.s) |-> StrOf(<<domains_config.s[i]>>)]
        \* the entry reaches `result[domain] = ...`
        Stored(entry) ==
            /\ entry.kind = "dict"
            /\ Truthy(Get(entry.body, "domain", Gives("None")))
            /\ LET subdomains_str == Get(entry.body, "subdomains", StrOf(<<"@">>))
               IN  IF subdomains_str.kind = "str"
                   THEN \E sp \in FieldSpans(subdomains_str.s, {","}) :
                           Trimmed(SubSeq(subdomains_str.s, sp[1], sp[2])) # <<>>
                   ELSE Truthy(subdomains_str)
        \* a list or a dict is not hashable and cannot be a key of `result`
        unhashable == {i \in 1..Len(entries) :
                          Stored(entries[i]) /\ entries[i].body.domain.kind \in {"list", "dict"}}
    IN  IF domains_config.kind \notin {"list", "str"}
        THEN \* iterating over None
             [raised |-> TRUE, value |-> "TypeError", calls |-> <<>>]
        ELSE IF unhashable # {}
        THEN [raised |-> TRUE, value |-> "TypeError", calls |-> <<>>]
        ELSE [raised |-> FALSE, value |-> parse_domains(entries), calls |-> <<>>]

ParseAnyNext ==
    CallReturns("DdnsManager._parse_domains", DdnsManager_parse_domains(args.domains_config))

\* the calls examined: a null section, a string, and lists of entries that
\* are not mappings or are mappings whose `domain` is missing, a string or a
\* list and whose `subdomains` is missing, null or a string
ParseAnySpec ==
    /\ CallInit(
         LET domains == {StrOf(<<>>), StrOf(ZoneA), ListOf(<<>>), ListOf(<<ZoneA>>)}
             entries ==
                 {Gives("None"), StrOf(ZoneA), DictOf([subdomains |-> StrOf(At)])}
                 \cup {DictOf([domain |-> d]) : d \in domains}
                 \cup {DictOf([domain |-> d, subdomains |-> s]) :
                          d \in domains, s \in {Gives("None"), StrOf(<<"@", ",", "w">>)}}
             configs == {Gives("None"), StrOf(ZoneA)}
                        \cup {ListOf(c) : c \in UNION {[1..n -> entries] : n \in 0..MaxEntries}}
         IN  { [args |-> [method |-> "DdnsManager._parse_domains", domains_config |-> c],
                env |-> Gives("None")] : c \in configs })
    /\ [][ParseAnyNext]_vars

\* C35 (parsers never raise): for every configuration value (entries that are
\* not mappings, non-string domain or subdomain values, a null or non-list
\* domains section) _parse_domains returns an empty or partial result and does
\* not raise.
C35_ParsersNeverRaise ==
    (fpc = "done" /\ args.method = "DdnsManager._parse_domains")
    => ~returned.raised

-----------------------------------------------------------------------------
(* What the cycles leave alone *)

Reconciled(t) ==
    LET zone == GetZoneId(t.domain, TRUE)
    IN  \/ zone.zone_id = None
        \/ \E i \in 1..Len(records) :
              /\ records[i].zone = zone.zone_id
              /\ records[i].name = RecordName(t.domain, t.subdomain)
              /\ records[i].type = t.record_type
              /\ records[i].content = ip

\* C37 (retry after a failed triple): a triple whose reconciliation failed is
\* attempted again by a later cycle while the public IP stays the same; so a
\* cycle that finds the IP unchanged and skips the pass leaves no triple behind
\* whose record could be brought to the current public IP.
C37_RetryAfterFailure ==
    (pc = "idle" /\ branch = "skip")
    => \A i \in 1..Len(Triples(ddns_domains)) : Reconciled(Triples(ddns_domains)[i])

\* C38 (write discipline of the reconciler): in a DDNS cycle at most one write
\* (one create or one update) is issued for each triple, no delete is ever
\* issued, and every write carries the name and type of the configured triple
\* it is issued for; a write follows the lookup of its triple, it is an update
\* of the first record returned when the lookup returned records and that
\* first record's content differs from the IP, a create when it returned none.
C38_WriteDiscipline ==
    \A k \in 1..Len(calls) :
        /\ calls[k].op \in {"get_zone_id", "get_dns_records", "create_dns_record",
                            "update_dns_record"}
        /\ IsWrite(calls[k])
           => LET t == Triples(ddns_domains)[calls[k].idx]
              IN  /\ calls[k].data.name
                       = (IF t.subdomain = <<"@">> THEN t.domain
                          ELSE t.subdomain \o <<".">> \o t.domain)
                  /\ calls[k].data.type = t.record_type
                  /\ \A j \in 1..Len(calls) :
                        (IsWrite(calls[j]) /\ calls[j].idx = calls[k].idx) => j = k
                  /\ k > 1
                  /\ calls[k - 1].op = "get_dns_records"
                  /\ calls[k - 1].idx = calls[k].idx
                  /\ IF calls[k - 1].ret = <<>>
                     THEN calls[k].op = "create_dns_record"
                     ELSE /\ calls[k].op = "update_dns_record"
                          /\ calls[k].record_id = calls[k - 1].ret[1].id
                          /\ calls[k - 1].ret[1].content # ip

\* two records match the triple (the second was created by an earlier cycle
\* whose lookup failed) and the first of them was updated
C38_Witness ==
    \E k \in 2..Len(calls) :
        /\ calls[k].op = "update_dns_record"
        /\ calls[k].ret
        /\ Len(calls[k - 1].ret) >= 2
        /\ calls[k].record_id = calls[k - 1].ret[1].id

\* C39 (written content): every create or update request of a DDNS cycle
\* carries as content the non-empty address that the cycle's own probe
\* returned, which is not the address cached from the earlier cycles; after an
\* empty probe body or a failed probe the cycle issues no write.
C39_WrittenContent ==
    /\ \A k \in 1..Len(calls) :
          IsWrite(calls[k])
          => /\ calls[k].data.content = ip
             /\ ip # None
             /\ ip # <<>>
             /\ ip # current_ip \/ pc = "idle"
             /\ branch = "pass"
    /\ (ip = None \/ ip = <<>>) => WriteCalls = <<>>

\* the second cycle probed an address other than the one the first cycle
\* cached, and wrote it
C39_Witness ==
    /\ cycle = 2
    /\ pc \in {"lookup", "write", "commit"}
    /\ hist.prev_ip = current_ip
    /\ current_ip \notin {None, <<>>}
    /\ ip # current_ip
    /\ \E k \in 1..Len(calls) :
          IsWrite(calls[k]) /\ calls[k].ret /\ calls[k].data.content = ip

\* CertificateManager.__init__ for two groups whose first status command
\* raises, fails or finds no certificate
CycleLiveInit ==
    /\ CycleInit
    /\ domains_str = <<"a", ";", "b">>
    /\ args.hash_order = <<FqdnA, FqdnB>>
    /\ \A g \in DOMAIN env : env[g].stdout \in {<<>>, <<"N", "o", " ", "c", "e", "r", "t", "i", "f", "i", "c", "a", "t", "e", "s", " ", "f", "o", "u", "n", "d", ".", "\n">>}

\* the thread that runs a cycle is never stopped for ever in it: weak
\* fairness of each step of the loop (for CertCheck it is written out with the
\* condition under which the step is enabled)
CycleLiveSpec ==
    /\ CycleLiveInit
    /\ [][CycleNext]_vars
    /\ \/ []<>~(cert_pc = "loop" /\ cert_idx <= Len(cert_domains))
       \/ []<><<CertCheck>>_vars
    /\ WF_vars(CertObtain)
    /\ WF_vars(CertEndCycle)

\* the groups checked so far by the cycle now running or last run, in the
\* order of the checks
GroupsChecked ==
    LET checks == SelectSeq(trace, LAMBDA e : IsStatus(e) /\ e.cycle = cert_cycle)
    IN  [k \in 1..Len(checks) |-> checks[k].group]

\* the trace of a cycle so far: the groups from the first one up to the one
\* the loop is at have been checked once each, in configuration order, and
\* what was run for a group is its check, then at most its acquisition
CycleInOrder ==
    /\ GroupsChecked
         = [k \in 1..(IF cert_pc = "ready" THEN Len(cert_domains)
                      ELSE IF cert_pc = "checked" THEN cert_idx
                      ELSE cert_idx - 1) |-> k]
    /\ \A i, j \in 1..Len(trace) :
          (i < j /\ trace[i].cycle = cert_cycle /\ trace[j].cycle = cert_cycle)
          => /\ trace[i].group <= trace[j].group
             /\ trace[i].group = trace[j].group
                  => IsStatus(trace[i]) /\ IsAcquisition(trace[j])

\* C40 (certificate cycle isolation): in every certificate cycle each
\* configured group is checked exactly once, in configuration order, the check
\* of a group preceding its acquisition; a failed check or a failed acquisition
\* of a group does not prevent the check of the groups after it, and a cycle
\* that has started always reaches its end.
C40_CycleIsolation ==
    /\ [](cert_cycle >= 1 => CycleInOrder)
    /\ (cert_pc \in {"loop", "checked"}) ~> (cert_pc = "ready")

\* a cycle over two groups has ended: the check of the first group failed and
\* so did its acquisition, and the second group was checked after it
C40_Witness ==
    /\ cert_pc = "ready"
    /\ cert_cycle >= 1
    /\ Len(cert_domains) = 2
    /\ GroupsChecked = <<1, 2>>
    /\ \E i, j \in 1..Len(trace) :
          /\ i < j
          /\ trace[i].cycle = cert_cycle /\ trace[j].cycle = cert_cycle
          /\ trace[i].group = 1 /\ IsStatus(trace[i]) /\ trace[i].result.raises
          /\ trace[j].group = 1 /\ IsAcquisition(trace[j]) /\ ~trace[j].value

=============================================================================
